---- MODULE Spec2Model ----
(***************************************************************************)
(* COS341Basic interpreter: the ProgramData record (prog_data.rs) and the  *)
(* state handlers of states.rs, driven by repeatedly running the handler   *)
(* that the previous handler returned.  Statement texts and variable       *)
(* values are strings; the regular expressions of states.rs are written    *)
(* out as leftmost, greedy matchers over those strings.                     *)
(***************************************************************************)
EXTENDS Integers, Sequences, FiniteSets, TLC

VARIABLES code, vars, stack, index, state, result, err, out, last,
          file_string, shape, lpc, register_segment, load_result, probe

interp_vars == <<code, vars, stack, index, state, result, err, out, last>>

loader_vars == <<file_string, shape, lpc, register_segment, load_result, probe>>

vars_all == <<code, vars, stack, index, state, result, err, out, last,
              file_string, shape, lpc, register_segment, load_result, probe>>

(***************************************************************************)
(* Bounds of the model.                                                    *)
(***************************************************************************)
MaxCode == 2
MaxTarget == 3
MaxStack == 2
MaxOut == 1
MaxDirect == 1
MaxLines == 3

\* longest program of divisions and pops
MaxStackCode == 4

(***************************************************************************)
(* Characters and strings.                                                  *)
(***************************************************************************)
AsciiLow == " !\"#$%&'()*+,-./0123456789:;<=>?@ABCDEFGHIJKLMNOPQRSTUVWXYZ[\\]^_"

AsciiHigh == "abcdefghijklmnopqrstuvwxyz{|}~"

Ch(s, i) == SubSeq(s, i, i)

\* the byte value of an ASCII character (32..95 and 97..126)
Ord(c) ==
    IF \E i \in 1..Len(AsciiLow) : Ch(AsciiLow, i) = c
    THEN 31 + (CHOOSE i \in 1..Len(AsciiLow) : Ch(AsciiLow, i) = c)
    ELSE 96 + (CHOOSE i \in 1..Len(AsciiHigh) : Ch(AsciiHigh, i) = c)

\* the character classes of the regular expressions: \d, [1-9], 0, [a-zA-Z ], \w
Digit == {"0", "1", "2", "3", "4", "5", "6", "7", "8", "9"}

IsDigit(c) == c \in Digit

NonZeroDigit == Digit \ {"0"}

Zero == {"0"}

Letters == "ABCDEFGHIJKLMNOPQRSTUVWXYZabcdefghijklmnopqrstuvwxyz"

LetterSet == {Ch(Letters, i) : i \in 1..Len(Letters)}

AlphaSpace == LetterSet \cup {" "}

Word == LetterSet \cup Digit \cup {"_"}

StartsAt(s, i, lit) == i >= 1 /\ i + Len(lit) - 1 <= Len(s) /\ SubSeq(s, i, i + Len(lit) - 1) = lit

Contains(s, lit) == \E i \in 1..Len(s) : StartsAt(s, i, lit)

\* end of the longest run of characters of class C that starts at i (i-1 when empty)
RunEnd(s, i, C) ==
    CHOOSE j \in (i - 1)..Len(s) :
        /\ \A k \in i..j : Ch(s, k) \in C
        /\ (j = Len(s) \/ Ch(s, j + 1) \notin C)

MinOf(S) == CHOOSE x \in S : \A y \in S : x <= y

NoMatch == [m |-> FALSE, caps |-> <<>>]

\* Regex::captures: of the matches at[i] tried at the positions i of a text, the leftmost
Search(at) ==
    IF \E i \in DOMAIN at : at[i].m
    THEN at[CHOOSE i \in DOMAIN at : at[i].m /\ \A j \in 1..(i - 1) : ~at[j].m]
    ELSE NoMatch

\* the positions of a text at which a match can start
Positions(s) == 1..(Len(s) + 1)

RECURSIVE StrLt(_, _)
StrLt(a, b) ==
    IF Len(b) = 0 THEN FALSE
    ELSE IF Len(a) = 0 THEN TRUE
    ELSE IF Ch(a, 1) = Ch(b, 1) THEN StrLt(Tail(a), Tail(b))
    ELSE Ord(Ch(a, 1)) < Ord(Ch(b, 1))

RECURSIVE Remove(_, _)
Remove(s, c) ==
    IF Len(s) = 0 THEN ""
    ELSE IF Ch(s, 1) = c THEN Remove(Tail(s), c)
    ELSE Ch(s, 1) \o Remove(Tail(s), c)

DigitVal(c) == CHOOSE d \in 0..9 : Ch("0123456789", d + 1) = c

RECURSIVE ParseNat(_)
ParseNat(s) == IF Len(s) = 0 THEN 0 ELSE 10 * ParseNat(SubSeq(s, 1, Len(s) - 1)) + DigitVal(Ch(s, Len(s)))

AllDigits(s) == Len(s) >= 1 /\ \A k \in 1..Len(s) : IsDigit(Ch(s, k))

\* str::parse::<i128>: an optional sign followed by at least one digit
ParseIntOk(s) ==
    IF Len(s) >= 1 /\ Ch(s, 1) \in {"+", "-"} THEN AllDigits(Tail(s)) ELSE AllDigits(s)

ParseInt(s) ==
    IF Ch(s, 1) = "-" THEN 0 - ParseNat(Tail(s))
    ELSE IF Ch(s, 1) = "+" THEN ParseNat(Tail(s))
    ELSE ParseNat(s)

DigitStr(d) == Ch("0123456789", d + 1)

RECURSIVE FmtNat(_)
FmtNat(n) == IF n < 10 THEN DigitStr(n) ELSE FmtNat(n \div 10) \o DigitStr(n % 10)

\* format!("{}", n) of an integer
FmtInt(n) == IF n < 0 THEN "-" \o FmtNat(0 - n) ELSE FmtNat(n)

(***************************************************************************)
(* The statement texts the model's programs are made of.                    *)
(***************************************************************************)
Conditions == <<"<=", ">=", "!=", "<", ">", "=">>

Operations == {"+", "-", "*", "/"}

Names == {"a", "b", "outlet"}

Inputs == {"7", "x y"}

GotoStmts == {"goto " \o FmtNat(t) : t \in 0..MaxTarget}

IfStmts ==
    {"if $a " \o Conditions[k] \o " $b goto " \o FmtNat(MaxTarget) : k \in 1..Len(Conditions)}
    \cup {"if $a < $b goto 1", "if $outlet = $a goto 1", "if $a = $c goto 1"}

MathStmts == {"let $c = $a " \o op \o " $b" : op \in Operations}

LetStmts == {"let $a = 5", "let $a = 05", "let e = $a", "let $b = \"hi\"", "let $a = pop", "let $b = input", "let $a = $b", "let $a = e"}

OtherStmts == {"output $a", "output $outlet", "quit", "nop"}

Stmts == GotoStmts \cup IfStmts \cup MathStmts \cup LetStmts \cup OtherStmts

\* the statements of the programs that only divide and pop
StackStmts == {"let $c = $a / $b", "let $c = $b / $a", "let $d = pop", "let $e = pop"}

\* every statement text the model runs
Texts == Stmts \cup StackStmts

(***************************************************************************)
(* ProgramData (prog_data.rs).  A record [code, vars, stack, index]; vars  *)
(* is a function whose domain is the set of bound names, the head of stack *)
(* is its top.                                                              *)
(***************************************************************************)
None == [some |-> FALSE, v |-> ""]

Some(x) == [some |-> TRUE, v |-> x]

get_code(d) == IF d.index + 1 <= Len(d.code) THEN Some(d.code[d.index + 1]) ELSE None

set_index(d, new_index) == [d EXCEPT !.index = new_index]

get_index(d) == d.index

next_line_Stay(d) == d

next_line(d) == [d EXCEPT !.index = @ + 1]

push_Back(d, x) == [d EXCEPT !.stack = Append(@, x)]

push(d, x) == [d EXCEPT !.stack = <<x>> \o @]

pop_Keep(d) == d

\* the stack after pop_front; the popped value is stack_top
pop(d) == IF Len(d.stack) = 0 THEN d ELSE [d EXCEPT !.stack = Tail(@)]

stack_top(d) == IF Len(d.stack) = 0 THEN None ELSE Some(d.stack[1])

contains_var(d, key) == key \in DOMAIN d.vars

get_var(d, key) == IF key \in DOMAIN d.vars THEN Some(d.vars[key]) ELSE None

set_var(d, key, value) ==
    [d EXCEPT !.vars = [n \in (DOMAIN d.vars) \cup {key} |-> IF n = key THEN value ELSE d.vars[n]]]

set_var_to_var_Swapped(d, lhs_key, rhs_key) ==
    IF lhs_key \in DOMAIN d.vars THEN set_var(d, rhs_key, d.vars[lhs_key]) ELSE d

set_var_to_var(d, lhs_key, rhs_key) == set_var(d, lhs_key, d.vars[rhs_key])

code_size(d) == Len(d.code)

(***************************************************************************)
(* Results of a handler: Ok((data, next handler)), Err(message), or a      *)
(* panic that unwinds out of the handler.                                   *)
(***************************************************************************)
Ok(d, next) == [tag |-> "Ok", data |-> d, next |-> next, msg |-> "", wrote |-> <<>>]

OkWrote(d, next, line) == [tag |-> "Ok", data |-> d, next |-> next, msg |-> "", wrote |-> <<line>>]

Err(d, m) == [tag |-> "Err", data |-> d, next |-> "None", msg |-> m, wrote |-> <<>>]

Panic(d, m) == [tag |-> "Panic", data |-> d, next |-> "None", msg |-> m, wrote |-> <<>>]

decode_and_execute_NoneIsError(data, regular_expression, executor, error_msg) ==
    LET c == get_code(data)
    IN IF c.some
       THEN IF regular_expression[c.v].m
            THEN executor
            ELSE Err(data, error_msg \o ": " \o c.v \o "\nAborting...")
       ELSE Err(data, error_msg \o "\nAborting...")

\* executor is the result of the closure on the captures; it is used only on a match
decode_and_execute(data, regular_expression, executor, error_msg) ==
    LET c == get_code(data)
    IN IF c.some
       THEN IF regular_expression[c.v].m
            THEN executor
            ELSE Err(data, error_msg \o ": " \o c.v \o "\nAborting...")
       ELSE Ok(data, "QuitState")

(***************************************************************************)
(* ExecuteState                                                             *)
(***************************************************************************)
TRANSITION_FUNCTIONS_LetToMath ==
    << <<"let", "MathState">>, <<"if", "IfState">>, <<"goto", "GotoState">>,
       <<"quit", "QuitState">>, <<"output", "OutputState">> >>

TRANSITION_FUNCTIONS ==
    << <<"let", "AssignState">>, <<"if", "IfState">>, <<"goto", "GotoState">>,
       <<"quit", "QuitState">>, <<"output", "OutputState">> >>

\* Regex "(.*)" matches at the first position of every text
AnyRegexAt(s, i) == [m |-> TRUE, caps |-> <<s>>]

AnyRegex == [s \in Texts |-> Search([i \in Positions(s) |-> AnyRegexAt(s, i)])]

\* Regex::is_match of the i-th transition regex on every statement text
TransitionMatch == [s \in Texts |-> [i \in 1..Len(TRANSITION_FUNCTIONS) |-> Contains(s, TRANSITION_FUNCTIONS[i][1])]]

ExecuteClosure_DefaultQuit(data, value, caps) ==
    LET I == {i \in 1..Len(TRANSITION_FUNCTIONS) : TransitionMatch[value][i]}
    IN IF I = {}
       THEN Ok(data, "QuitState")
       ELSE Ok(data, TRANSITION_FUNCTIONS[MinOf(I)][2])

ExecuteClosure(data, value, caps) ==
    LET I == {i \in 1..Len(TRANSITION_FUNCTIONS) : TransitionMatch[value][i]}
    IN IF I = {}
       THEN Err(data, "Unknown instruction: " \o value \o "\nAborting...")
       ELSE Ok(data, TRANSITION_FUNCTIONS[MinOf(I)][2])

ExecuteState_execute_Advance(data) ==
    decode_and_execute(data, AnyRegex,
        ExecuteClosure(next_line(data), get_code(data).v, AnyRegex[get_code(data).v].caps),
        "Unknown instruction")

ExecuteState_execute(data) ==
    decode_and_execute(data, AnyRegex,
        ExecuteClosure(data, get_code(data).v, AnyRegex[get_code(data).v].caps),
        "Unknown instruction")

(***************************************************************************)
(* GotoState                                                                *)
(***************************************************************************)
\* Regex goto (\d+)
GotoRegexAt(s, i) ==
    IF StartsAt(s, i, "goto ") /\ RunEnd(s, i + 5, Digit) >= i + 5
    THEN [m |-> TRUE, caps |-> <<SubSeq(s, i + 5, RunEnd(s, i + 5, Digit))>>]
    ELSE NoMatch

GotoRegex == [s \in Texts |-> Search([i \in Positions(s) |-> GotoRegexAt(s, i)])]

GotoOutOfBounds_OffByOne(goto_ptr, size) == goto_ptr > size

GotoOutOfBounds(goto_ptr, size) == goto_ptr >= size

GotoClosure_PushReturn(data, value, goto_capture) ==
    LET goto_ptr == ParseNat(goto_capture[1])
    IN IF GotoOutOfBounds(goto_ptr, code_size(data))
       THEN Err(data, "Goto statement points to region out of bounds!\nAborting...")
       ELSE Ok(set_index(push(data, FmtNat(get_index(data) + 1)), goto_ptr), "ExecuteState")

GotoClosure(data, value, goto_capture) ==
    LET goto_ptr == ParseNat(goto_capture[1])
    IN IF GotoOutOfBounds(goto_ptr, code_size(data))
       THEN Err(data, "Goto statement points to region out of bounds!\nAborting...")
       ELSE Ok(set_index(data, goto_ptr), "ExecuteState")

GotoState_execute(data) ==
    decode_and_execute(data, GotoRegex,
        GotoClosure(data, get_code(data).v, GotoRegex[get_code(data).v].caps),
        "Invalid goto statement")

(***************************************************************************)
(* IfState                                                                  *)
(***************************************************************************)
\* Regex if \$(\w+) (<=?|>=?|=|!=) \$(\w+) goto (\d+)
IfRegexAt(s, i) ==
    IF ~StartsAt(s, i, "if $") THEN NoMatch
    ELSE LET e1 == RunEnd(s, i + 4, Word)
             O == {k \in 1..Len(Conditions) :
                      StartsAt(s, e1 + 2, Conditions[k] \o " $")}
         IN IF e1 < i + 4 \/ ~StartsAt(s, e1 + 1, " ") \/ O = {} THEN NoMatch
            ELSE LET cond == Conditions[MinOf(O)]
                     b2 == e1 + 2 + Len(cond) + 2
                     e2 == RunEnd(s, b2, Word)
                     b3 == e2 + 7
                     e3 == RunEnd(s, b3, Digit)
                 IN IF e2 < b2 \/ ~StartsAt(s, e2 + 1, " goto ") \/ e3 < b3 THEN NoMatch
                    ELSE [m |-> TRUE,
                          caps |-> <<SubSeq(s, i + 4, e1), cond, SubSeq(s, b2, e2), SubSeq(s, b3, e3)>>]

StrLe(a, b) == a = b \/ StrLt(a, b)

\* the comparison done on the integer values when both texts are numeric
predicate_Numeric(condition, lhs, rhs) ==
    IF ParseIntOk(lhs) /\ ParseIntOk(rhs)
    THEN CASE condition = ">=" -> ParseInt(lhs) >= ParseInt(rhs)
           [] condition = ">" -> ParseInt(lhs) > ParseInt(rhs)
           [] condition = "<=" -> ParseInt(lhs) <= ParseInt(rhs)
           [] condition = "<" -> ParseInt(lhs) < ParseInt(rhs)
           [] condition = "=" -> ParseInt(lhs) = ParseInt(rhs)
           [] condition = "!=" -> ParseInt(lhs) # ParseInt(rhs)
           [] OTHER -> FALSE
    ELSE CASE condition = ">=" -> StrLe(rhs, lhs)
           [] condition = ">" -> StrLt(rhs, lhs)
           [] condition = "<=" -> StrLe(lhs, rhs)
           [] condition = "<" -> StrLt(lhs, rhs)
           [] condition = "=" -> lhs = rhs
           [] condition = "!=" -> lhs # rhs
           [] OTHER -> FALSE

predicate(condition, lhs, rhs) ==
    CASE condition = ">=" -> StrLe(rhs, lhs)
      [] condition = ">" -> StrLt(rhs, lhs)
      [] condition = "<=" -> StrLe(lhs, rhs)
      [] condition = "<" -> StrLt(lhs, rhs)
      [] condition = "=" -> lhs = rhs
      [] condition = "!=" -> lhs # rhs
      [] OTHER -> FALSE

IfRegex == [s \in Texts |-> Search([i \in Positions(s) |-> IfRegexAt(s, i)])]

IfClosure_RightFirst(data, value, captures) ==
    LET lhs_name == captures[1]
        rhs_name == captures[3]
        code_pos == ParseNat(captures[4])
        condition == captures[2]
    IN IF ~contains_var(data, rhs_name)
       THEN Err(data, "Variable $" \o rhs_name \o " does not exist!\nAborting...")
       ELSE IF ~contains_var(data, lhs_name)
       THEN Err(data, "Variable $" \o lhs_name \o " does not exist!\nAborting...")
       ELSE LET lhs_val == get_var(data, lhs_name).v
                rhs_val == get_var(data, rhs_name).v
                goto_pos == IF predicate(condition, lhs_val, rhs_val)
                            THEN code_pos
                            ELSE get_index(data) + 1
            IN Ok(set_index(data, goto_pos), "ExecuteState")

IfClosure(data, value, captures) ==
    LET lhs_name == captures[1]
        rhs_name == captures[3]
        code_pos == ParseNat(captures[4])
        condition == captures[2]
    IN IF ~contains_var(data, lhs_name)
       THEN Err(data, "Variable $" \o lhs_name \o " does not exist!\nAborting...")
       ELSE IF ~contains_var(data, rhs_name)
       THEN Err(data, "Variable $" \o rhs_name \o " does not exist!\nAborting...")
       ELSE LET lhs_val == get_var(data, lhs_name).v
                rhs_val == get_var(data, rhs_name).v
                goto_pos == IF predicate(condition, lhs_val, rhs_val)
                            THEN code_pos
                            ELSE get_index(data) + 1
            IN Ok(set_index(data, goto_pos), "ExecuteState")

IfState_execute(data) ==
    decode_and_execute(data, IfRegex,
        IfClosure(data, get_code(data).v, IfRegex[get_code(data).v].caps),
        "Invalid if statement")

(***************************************************************************)
(* OutputState                                                              *)
(***************************************************************************)
\* Regex output \$(\w+)
OutputRegexAt(s, i) ==
    IF StartsAt(s, i, "output $") /\ RunEnd(s, i + 8, Word) >= i + 8
    THEN [m |-> TRUE, caps |-> <<SubSeq(s, i + 8, RunEnd(s, i + 8, Word))>>]
    ELSE NoMatch

OutputRegex == [s \in Texts |-> Search([i \in Positions(s) |-> OutputRegexAt(s, i)])]

OutputClosure_WritesEmpty(data, value, output_capture) ==
    LET var_name == output_capture[1]
        var_data == get_var(data, var_name)
    IN IF var_data.some
       THEN OkWrote(next_line(data), "ExecuteState", var_data.v)
       ELSE OkWrote(next_line(data), "ExecuteState", "")

OutputClosure(data, value, output_capture) ==
    LET var_name == output_capture[1]
        var_data == get_var(data, var_name)
    IN IF var_data.some
       THEN OkWrote(next_line(data), "ExecuteState", var_data.v)
       ELSE Err(data, "Memory index out of bounds!\nAborting...")

OutputState_execute(data) ==
    decode_and_execute(data, OutputRegex,
        OutputClosure(data, get_code(data).v, OutputRegex[get_code(data).v].caps),
        "Lolwut")

(***************************************************************************)
(* AssignState                                                              *)
(***************************************************************************)
\* the common prefix let \$(\w+) = of the five assign patterns: the end of
\* the name when the prefix matches at i, and 0 otherwise
LetNameEnd(s, i) ==
    IF StartsAt(s, i, "let $") /\ RunEnd(s, i + 5, Word) >= i + 5
       /\ StartsAt(s, RunEnd(s, i + 5, Word) + 1, " = ")
    THEN RunEnd(s, i + 5, Word)
    ELSE 0

\* Regex let \$(\w+) = (0+|([1-9]\d*)|"[a-zA-Z ]*")
assign_from_code_at(s, i) ==
    LET e1 == LetNameEnd(s, i)
        r == e1 + 4
    IN IF e1 = 0 THEN NoMatch
       ELSE IF StartsAt(s, r, "0")
       THEN [m |-> TRUE, caps |-> <<SubSeq(s, i + 5, e1), SubSeq(s, r, RunEnd(s, r, Zero))>>]
       ELSE IF r <= Len(s) /\ Ch(s, r) \in NonZeroDigit
       THEN [m |-> TRUE, caps |-> <<SubSeq(s, i + 5, e1), SubSeq(s, r, RunEnd(s, r + 1, Digit))>>]
       ELSE IF StartsAt(s, r, "\"") /\ StartsAt(s, RunEnd(s, r + 1, AlphaSpace) + 1, "\"")
       THEN [m |-> TRUE,
             caps |-> <<SubSeq(s, i + 5, e1), SubSeq(s, r, RunEnd(s, r + 1, AlphaSpace) + 1)>>]
       ELSE NoMatch

\* Regex let \$(\w+) = \$(\w+)
assign_from_memory_at(s, i) ==
    LET e1 == LetNameEnd(s, i)
        r == e1 + 4
    IN IF e1 # 0 /\ StartsAt(s, r, "$") /\ RunEnd(s, r + 1, Word) >= r + 1
       THEN [m |-> TRUE, caps |-> <<SubSeq(s, i + 5, e1), SubSeq(s, r + 1, RunEnd(s, r + 1, Word))>>]
       ELSE NoMatch

\* Regex let \$(\w+) = input
assign_from_input_at(s, i) ==
    LET e1 == LetNameEnd(s, i)
    IN IF e1 # 0 /\ StartsAt(s, e1 + 4, "input")
       THEN [m |-> TRUE, caps |-> <<SubSeq(s, i + 5, e1)>>]
       ELSE NoMatch

\* Regex let \$(\w+) = pop
assign_from_stack_at(s, i) ==
    LET e1 == LetNameEnd(s, i)
    IN IF e1 # 0 /\ StartsAt(s, e1 + 4, "pop")
       THEN [m |-> TRUE, caps |-> <<SubSeq(s, i + 5, e1)>>]
       ELSE NoMatch

\* \$(\w+) ([+\-*/]) \$(\w+) at position r: the captures, or NoMatch
OperationAt(s, r) ==
    IF ~(StartsAt(s, r, "$") /\ RunEnd(s, r + 1, Word) >= r + 1) THEN NoMatch
    ELSE LET e2 == RunEnd(s, r + 1, Word)
         IN IF StartsAt(s, e2 + 1, " ") /\ e2 + 2 <= Len(s) /\ Ch(s, e2 + 2) \in Operations
               /\ StartsAt(s, e2 + 3, " $") /\ RunEnd(s, e2 + 5, Word) >= e2 + 5
            THEN [m |-> TRUE,
                  caps |-> <<SubSeq(s, r + 1, e2), Ch(s, e2 + 2),
                             SubSeq(s, e2 + 5, RunEnd(s, e2 + 5, Word))>>]
            ELSE NoMatch

\* Regex let \$(\w+) = \$(\w+) ([+\-*/]) \$(\w+)
assign_from_operation_at(s, i) ==
    LET e1 == LetNameEnd(s, i)
    IN IF e1 # 0 /\ OperationAt(s, e1 + 4).m
       THEN [m |-> TRUE, caps |-> <<SubSeq(s, i + 5, e1)>> \o OperationAt(s, e1 + 4).caps]
       ELSE NoMatch

assign_from_code == [s \in Texts |-> Search([i \in Positions(s) |-> assign_from_code_at(s, i)])]

assign_from_memory == [s \in Texts |-> Search([i \in Positions(s) |-> assign_from_memory_at(s, i)])]

assign_from_input == [s \in Texts |-> Search([i \in Positions(s) |-> assign_from_input_at(s, i)])]

assign_from_operation == [s \in Texts |-> Search([i \in Positions(s) |-> assign_from_operation_at(s, i)])]

assign_from_stack == [s \in Texts |-> Search([i \in Positions(s) |-> assign_from_stack_at(s, i)])]

\* states.rs 303-311: the literal is bound with its quotes removed.
AssignFromCode(data, value) ==
    LET assign_tokens == assign_from_code[value].caps
        var_name == assign_tokens[1]
        var_val == Remove(assign_tokens[2], "\"")
    IN Ok(next_line(set_var(data, var_name, var_val)), "ExecuteState")

\* states.rs 314-326: the top of the stack is bound, or the stack is empty.
AssignFromStack(data, value) ==
    LET stack_value == stack_top(data)
        popped == pop(data)
    IN IF stack_value.some
       THEN Ok(next_line(set_var(popped, assign_from_stack[value].caps[1],
                                 stack_value.v)), "ExecuteState")
       ELSE Err(popped, "Stack is empty!\nAborting...")

AssignFromOperation_Advance(data) == Ok(next_line(data), "MathState")

\* states.rs 328-329: the statement is left to MathState.
AssignFromOperation(data) == Ok(data, "MathState")

\* states.rs 330-336: the line read from the user is bound.
AssignFromInput(data, value, input) ==
    Ok(next_line(set_var(data, assign_from_input[value].caps[1], input)),
       "ExecuteState")

AssignFromMemory_BindFirst(data, value) ==
    LET assign_tokens == assign_from_memory[value].caps
        lhs_key == assign_tokens[1]
        rhs_key == assign_tokens[2]
    IN IF ~contains_var(data, rhs_key)
       THEN Err(set_var(data, lhs_key, ""),
                "Variable $" \o rhs_key \o " does not exist!\nAborting...")
       ELSE Ok(next_line(set_var_to_var(data, lhs_key, rhs_key)), "ExecuteState")

\* states.rs 339-351: the value of another variable is copied.
AssignFromMemory(data, value) ==
    LET assign_tokens == assign_from_memory[value].caps
        lhs_key == assign_tokens[1]
        rhs_key == assign_tokens[2]
    IN IF ~contains_var(data, rhs_key)
       THEN Err(data, "Variable $" \o rhs_key \o " does not exist!\nAborting...")
       ELSE Ok(next_line(set_var_to_var(data, lhs_key, rhs_key)), "ExecuteState")

AssignInvalid_Quit(data, value) == Ok(data, "QuitState")

\* states.rs 353-355: no shape matched.
AssignInvalid(data, value) ==
    Err(data, "Invalid assign instruction: " \o value \o "\nAborting...")

AssignState_execute_MemoryFirst(data, input) ==
    LET code_line == get_code(data)
        value == code_line.v
    IN IF ~code_line.some THEN Ok(data, "QuitState")
       ELSE IF assign_from_code[value].m THEN AssignFromCode(data, value)
       ELSE IF assign_from_stack[value].m THEN AssignFromStack(data, value)
       ELSE IF assign_from_memory[value].m THEN AssignFromMemory(data, value)
       ELSE IF assign_from_operation[value].m THEN AssignFromOperation(data)
       ELSE IF assign_from_input[value].m THEN AssignFromInput(data, value, input)
       ELSE AssignInvalid(data, value)

\* states.rs 287-360: the shapes are tried in the order literal, pop,
\* arithmetic, input, copy.
AssignState_execute(data, input) ==
    LET code_line == get_code(data)
        value == code_line.v
    IN IF ~code_line.some THEN Ok(data, "QuitState")
       ELSE IF assign_from_code[value].m THEN AssignFromCode(data, value)
       ELSE IF assign_from_stack[value].m THEN AssignFromStack(data, value)
       ELSE IF assign_from_operation[value].m THEN AssignFromOperation(data)
       ELSE IF assign_from_input[value].m THEN AssignFromInput(data, value, input)
       ELSE IF assign_from_memory[value].m THEN AssignFromMemory(data, value)
       ELSE AssignInvalid(data, value)

(***************************************************************************)
(* MathState                                                                *)
(***************************************************************************)
\* Regex \$(\w+) = \$(\w+) ([+\-*/]) \$(\w+)
MathRegexAt(s, i) ==
    IF ~(StartsAt(s, i, "$") /\ RunEnd(s, i + 1, Word) >= i + 1) THEN NoMatch
    ELSE LET e1 == RunEnd(s, i + 1, Word)
         IN IF StartsAt(s, e1 + 1, " = ") /\ OperationAt(s, e1 + 4).m
            THEN [m |-> TRUE, caps |-> <<SubSeq(s, i + 1, e1)>> \o OperationAt(s, e1 + 4).caps]
            ELSE NoMatch

Abs(n) == IF n < 0 THEN 0 - n ELSE n

\* the quotient rounded toward minus infinity and its remainder
div_rem_Floor(a, b) ==
    LET t == IF (a < 0) = (b < 0) THEN Abs(a) \div Abs(b) ELSE 0 - (Abs(a) \div Abs(b))
        q == IF t * b # a /\ ((a < 0) # (b < 0)) THEN t - 1 ELSE t
    IN <<q, a - q * b>>

\* num_integer::div_rem on i128: the quotient truncated toward zero and the remainder
div_rem(a, b) ==
    LET q == IF (a < 0) = (b < 0) THEN Abs(a) \div Abs(b) ELSE 0 - (Abs(a) \div Abs(b))
    IN <<q, a - q * b>>

IndexOf(s, c) == MinOf({i \in 1..Len(s) : Ch(s, i) = c})

\* the result with the operands of the subtraction exchanged
MathResult_Swapped(operation, a, b) ==
    CASE operation = "*" -> FmtInt(a * b)
      [] operation = "/" -> FmtInt(div_rem(a, b)[1]) \o "." \o FmtInt(div_rem(a, b)[2])
      [] operation = "+" -> FmtInt(a + b)
      [] operation = "-" -> FmtInt(b - a)

\* the text of the result: "q.r" for a division
MathResult(operation, a, b) ==
    CASE operation = "*" -> FmtInt(a * b)
      [] operation = "/" -> FmtInt(div_rem(a, b)[1]) \o "." \o FmtInt(div_rem(a, b)[2])
      [] operation = "+" -> FmtInt(a + b)
      [] operation = "-" -> FmtInt(a - b)

MathRegex == [s \in Texts |-> Search([i \in Positions(s) |-> MathRegexAt(s, i)])]

\* the right operand checked before the left one
NotNumeric_RightFirst(lhs_name, lhs_val, rhs_name, rhs_val) ==
    IF ~ParseIntOk(rhs_val) THEN Some("$" \o rhs_name \o " is not a numeric value!\nAborting...")
    ELSE IF ~ParseIntOk(lhs_val) THEN Some("$" \o lhs_name \o " is not a numeric value!\nAborting...")
    ELSE None

\* the message for the first operand whose parse::<i128>() is an Err, if any
NotNumeric(lhs_name, lhs_val, rhs_name, rhs_val) ==
    IF ~ParseIntOk(lhs_val) THEN Some("$" \o lhs_name \o " is not a numeric value!\nAborting...")
    ELSE IF ~ParseIntOk(rhs_val) THEN Some("$" \o rhs_name \o " is not a numeric value!\nAborting...")
    ELSE None

MathClosure(data, value, captures) ==
    LET lhs_name == captures[2]
        rhs_name == captures[4]
        assign_name == captures[1]
        operation == captures[3]
    IN IF ~contains_var(data, lhs_name)
       THEN Err(data, "Variable $" \o lhs_name \o " does not exist!\nAborting...")
       ELSE IF ~contains_var(data, rhs_name)
       THEN Err(data, "Variable $" \o rhs_name \o " does not exist!\nAborting...")
       ELSE LET lhs_val == get_var(data, lhs_name).v
                rhs_val == get_var(data, rhs_name).v
            IN IF NotNumeric(lhs_name, lhs_val, rhs_name, rhs_val).some
               THEN Err(data, NotNumeric(lhs_name, lhs_val, rhs_name, rhs_val).v)
               ELSE IF operation = "/" /\ ParseInt(rhs_val) = 0
               THEN Panic(data, "attempt to divide by zero")
               ELSE LET res == MathResult(operation, ParseInt(lhs_val), ParseInt(rhs_val))
                    IN IF Contains(res, ".")
                       THEN LET p == IndexOf(res, ".")
                                division == <<SubSeq(res, 1, p - 1), SubSeq(res, p + 1, Len(res))>>
                            IN Ok(next_line(push(set_var(data, assign_name, division[1]),
                                                 division[2])), "ExecuteState")
                       ELSE Ok(next_line(set_var(data, assign_name, res)), "ExecuteState")

MathState_execute(data) ==
    decode_and_execute(data, MathRegex,
        MathClosure(data, get_code(data).v, MathRegex[get_code(data).v].caps),
        "Lolwut")

EndState_execute_Continue(data) == Ok(data, "ExecuteState")

\* EndState: do_exit() ends the process (under test: sets IS_EXIT and returns Err("Exit"))
EndState_execute(data) == [tag |-> "Exit", data |-> data, next |-> "None", msg |-> "Exit", wrote |-> <<>>]

(***************************************************************************)
(* Error codes of the loader (errors.rs).                                   *)
(***************************************************************************)
ERROR_MESSAGES ==
    <<"Ok",
      "No register segment found!",
      "No code segment found!",
      "Malformed register assignment found!",
      "Malformed code assignment found!",
      "Register declaration not in chronological order!",
      "Code lines are not in chronological order!",
      "Malformed register segment found!",
      "Malformed code segment found!">>

ErrorTypes == {"NoSegment", "AllOk", "MalformedAssignment", "NotChronological", "MalformedSegment"}

SegmentErrorTypes == {"Variable", "Code"}

VariableErrorCodes_value_Swapped(e) ==
    IF e = "NoSegment" THEN 1
    ELSE IF e = "AllOk" THEN 0
    ELSE IF e = "MalformedAssignment" THEN 5
    ELSE IF e = "NotChronological" THEN 3
    ELSE 7

VariableErrorCodes_value(e) ==
    IF e = "NoSegment" THEN 1
    ELSE IF e = "AllOk" THEN 0
    ELSE IF e = "MalformedAssignment" THEN 3
    ELSE IF e = "NotChronological" THEN 5
    ELSE 7

CodeErrorCode_value_Odd(e) ==
    IF e = "NoSegment" THEN 1
    ELSE IF e = "AllOk" THEN 0
    ELSE IF e = "MalformedAssignment" THEN 3
    ELSE IF e = "NotChronological" THEN 5
    ELSE 7

CodeErrorCode_value(e) ==
    IF e = "NoSegment" THEN 2
    ELSE IF e = "AllOk" THEN 0
    ELSE IF e = "MalformedAssignment" THEN 4
    ELSE IF e = "NotChronological" THEN 6
    ELSE 8

error_KindsSwapped(seg, e) ==
    IF seg = "Variable" THEN CodeErrorCode_value(e) ELSE VariableErrorCodes_value(e)

\* error(seg, code).value()
error(seg, e) == IF seg = "Variable" THEN VariableErrorCodes_value(e) ELSE CodeErrorCode_value(e)

\* two (segment kind, condition) pairs, the codes error gives them and the messages
\* ERROR_MESSAGES holds at those codes
NoProbe ==
    [pc |-> "idle", seg |-> <<"Variable", "Variable">>, cond |-> <<"AllOk", "AllOk">>,
     value |-> <<0, 0>>, message |-> <<"", "">>]

(***************************************************************************)
(* The segment loader (code_loader.rs).  Texts are strings; positions in a  *)
(* text are byte offsets counted from 0 as in the source.                   *)
(***************************************************************************)
BEGIN_REGISTER_SEGMENT == "BEGIN_REGISTER_SEGMENT\n"

END_REGISTER_SEGMENT == "\nEND_REGISTER_SEGMENT"

BEGIN_CODE_SEGMENT == "BEGIN_CODE_SEGMENT\n"

END_CODE_SEGMENT == "\nEND_CODE_SEGMENT"

\* str::find: the offset of the first occurrence of lit in s
find(s, lit) ==
    IF \E i \in 1..Len(s) : StartsAt(s, i, lit)
    THEN Some((CHOOSE i \in 1..Len(s) : StartsAt(s, i, lit) /\ \A j \in 1..(i - 1) : ~StartsAt(s, j, lit)) - 1)
    ELSE None

\* the characters str::trim removes
WhiteSpace == {" ", "\n", "\r", "\t"}

\* str::trim
trim(s) ==
    IF \A k \in 1..Len(s) : Ch(s, k) \in WhiteSpace THEN ""
    ELSE LET a == CHOOSE i \in 1..Len(s) :
                      Ch(s, i) \notin WhiteSpace /\ \A j \in 1..(i - 1) : Ch(s, j) \in WhiteSpace
             b == CHOOSE i \in 1..Len(s) :
                      Ch(s, i) \notin WhiteSpace /\ \A j \in (i + 1)..Len(s) : Ch(s, j) \in WhiteSpace
         IN SubSeq(s, a, b)

\* a line terminator \n or \r\n starts at position i of s
TerminatorAt(s, i) == Ch(s, i) = "\n" \/ StartsAt(s, i, "\r\n")

\* Regex (\n|\r\n) split: the pieces of s between the line terminators
RECURSIVE split(_)
split(s) ==
    IF \E i \in 1..Len(s) : TerminatorAt(s, i)
    THEN LET i == CHOOSE i \in 1..Len(s) :
                      TerminatorAt(s, i) /\ \A j \in 1..(i - 1) : ~TerminatorAt(s, j)
             n == IF Ch(s, i) = "\n" THEN 1 ELSE 2
         IN <<SubSeq(s, 1, i - 1)>> \o split(SubSeq(s, i + n, Len(s)))
    ELSE <<s>>

\* the pattern of a declaration of the variable segment
VarPattern == "^(\\d+) (\\w+)"

\* the pattern of a line of the code segment
CodePattern == "^(\\d+) (.+)"

\* the characters of s that . matches
Dot(s) == {Ch(s, k) : k \in 1..Len(s)} \ {"\n"}

\* Regex::captures of one of the two patterns on s: both are anchored at the start of
\* the text and open with (\d+) and a space
captures(split_regex, s) ==
    LET d == RunEnd(s, 1, Digit)
        C == IF split_regex = VarPattern THEN Word ELSE Dot(s)
    IN IF d >= 1 /\ StartsAt(s, d + 1, " ") /\ RunEnd(s, d + 2, C) >= d + 2
       THEN [m |-> TRUE, caps |-> <<SubSeq(s, 1, d), SubSeq(s, d + 2, RunEnd(s, d + 2, C))>>]
       ELSE NoMatch

\* Result<Vec<String>, u32>
SegOk(v) == [tag |-> "Ok", val |-> v, code |-> 0]

SegErr(n) == [tag |-> "Err", val |-> <<>>, code |-> n]

\* code_loader.rs 98-125: the loop over the pieces from piece i on; its result is the
\* final err and memory_vec
RECURSIVE load_loop(_, _, _, _, _, _)
load_loop(segment_error_type, variables, split_regex, i, memory_vec, variable_index) ==
    IF i > Len(variables) THEN [err |-> error(segment_error_type, "AllOk"), memory_vec |-> memory_vec]
    ELSE LET var == variables[i]
             item == captures(split_regex, var)
         IN IF Len(var) = 0
            THEN load_loop(segment_error_type, variables, split_regex, i + 1, memory_vec, variable_index)
            ELSE IF ~item.m
            THEN [err |-> error(segment_error_type, "MalformedAssignment"), memory_vec |-> memory_vec]
            ELSE IF ParseNat(item.caps[1]) # variable_index
            THEN [err |-> error(segment_error_type, "NotChronological"), memory_vec |-> memory_vec]
            ELSE load_loop(segment_error_type, variables, split_regex, i + 1,
                           Append(memory_vec, item.caps[2]), variable_index + 1)

load_segment(segment_error_type, variable_string, split_regex) ==
    IF Len(variable_string) = 0 THEN SegOk(<<>>)
    ELSE IF ~captures(split_regex, trim(variable_string)).m
    THEN SegErr(error(segment_error_type, "MalformedSegment"))
    ELSE LET final == load_loop(segment_error_type, split(variable_string), split_regex, 1, <<>>, 0)
         IN IF final.err = 0 THEN SegOk(final.memory_vec) ELSE SegErr(final.err)

load_variable_segment(segment) == load_segment("Variable", segment, VarPattern)

load_code_segment_VarPattern(segment) == load_segment("Code", segment, VarPattern)

load_code_segment(segment) == load_segment("Code", segment, CodePattern)

\* Result<(Vec<String>, Vec<String>), String>; a panic unwinds out of the loader
FileOk(regs, stmts) == [tag |-> "Ok", val |-> <<regs, stmts>>, code |-> 0, msg |-> ""]

FileErr(m) == [tag |-> "Err", val |-> <<>>, code |-> 0, msg |-> m]

FilePanic(m) == [tag |-> "Panic", val |-> <<>>, code |-> 0, msg |-> m]

NotLoaded == [tag |-> "None", val |-> <<>>, code |-> 0]

MissingMarker_CodeFirst(s) ==
    IF ~find(s, BEGIN_REGISTER_SEGMENT).some THEN Some("No register segment found! Aborting...")
    ELSE IF ~find(s, BEGIN_CODE_SEGMENT).some THEN Some("No code segment found! Aborting...")
    ELSE IF ~find(s, END_REGISTER_SEGMENT).some THEN Some("Register segment not fully defined! Aborting...")
    ELSE IF ~find(s, END_CODE_SEGMENT).some THEN Some("Code segment not fully defined! Aborting...")
    ELSE None

\* code_loader.rs 19-31: the message for the first marker that is not found
MissingMarker(s) ==
    IF ~find(s, BEGIN_REGISTER_SEGMENT).some THEN Some("No register segment found! Aborting...")
    ELSE IF ~find(s, END_REGISTER_SEGMENT).some THEN Some("Register segment not fully defined! Aborting...")
    ELSE IF ~find(s, BEGIN_CODE_SEGMENT).some THEN Some("No code segment found! Aborting...")
    ELSE IF ~find(s, END_CODE_SEGMENT).some THEN Some("Code segment not fully defined! Aborting...")
    ELSE None

\* file_string[s_pos..e_pos] panics unless s_pos <= e_pos <= len
SliceInRange(s, s_pos, e_pos) == s_pos <= e_pos /\ e_pos <= Len(s)

Slice(s, s_pos, e_pos) == SubSeq(s, s_pos + 1, e_pos)

\* code_loader.rs 33-34: the register segment lies between its two markers
RegisterSegmentBounds(s) ==
    [s_pos |-> find(s, BEGIN_REGISTER_SEGMENT).v + Len(BEGIN_REGISTER_SEGMENT),
     e_pos |-> find(s, END_REGISTER_SEGMENT).v]

CodeSegmentBounds_LastEnd(s) ==
    [s_pos |-> find(s, BEGIN_CODE_SEGMENT).v + Len(BEGIN_CODE_SEGMENT),
     e_pos |-> IF find(s, END_REGISTER_SEGMENT).v > find(s, END_CODE_SEGMENT).v
               THEN find(s, END_REGISTER_SEGMENT).v
               ELSE find(s, END_CODE_SEGMENT).v]

\* code_loader.rs 42-43: the code segment lies between its two markers
CodeSegmentBounds(s) ==
    [s_pos |-> find(s, BEGIN_CODE_SEGMENT).v + Len(BEGIN_CODE_SEGMENT),
     e_pos |-> find(s, END_CODE_SEGMENT).v]

\* code_loader.rs 14-51: what load_code_from_file returns for the text of a file
load_code_from_file(s) ==
    IF MissingMarker(s).some THEN FileErr(MissingMarker(s).v)
    ELSE LET r == RegisterSegmentBounds(s)
             c == CodeSegmentBounds(s)
         IN IF ~SliceInRange(s, r.s_pos, r.e_pos) THEN FilePanic("slice index")
            ELSE LET register_seg == load_variable_segment(Slice(s, r.s_pos, r.e_pos))
                 IN IF register_seg.tag = "Err" THEN FileErr(FmtNat(register_seg.code))
                    ELSE IF ~SliceInRange(s, c.s_pos, c.e_pos) THEN FilePanic("slice index")
                    ELSE LET code_seg == load_code_segment(Slice(s, c.s_pos, c.e_pos))
                         IN IF code_seg.tag = "Err" THEN FileErr(FmtNat(code_seg.code))
                            ELSE FileOk(register_seg.val, code_seg.val)

(***************************************************************************)
(* The texts the loader is run on.  A segment body is up to MaxLines lines *)
(* joined by one kind of line terminator; a file is the marker lines that   *)
(* are present with the lines of the two segments between them.             *)
(***************************************************************************)
LineSet == {"", "0 5", "1 6", "2 a b", "1", " 0 5"}

LineSeqs == UNION {[1..n -> LineSet] : n \in 0..MaxLines}

Terminators == {"\n", "\r\n"}

RECURSIVE Join(_, _)
Join(lines, sep) ==
    IF Len(lines) = 0 THEN ""
    ELSE IF Len(lines) = 1 THEN lines[1]
    ELSE lines[1] \o sep \o Join(Tail(lines), sep)

SegmentText(lines, sep, trailing) == Join(lines, sep) \o (IF trailing THEN sep ELSE "")

Markers == {"BEGIN_REGISTER", "END_REGISTER", "BEGIN_CODE", "END_CODE"}

RegisterBodies == {<<>>, <<"">>, <<"0 5">>, <<"1 5">>}

StatementBodies == {<<>>, <<"">>, <<"0 quit">>, <<"0quit">>}

MarkerLine(present, name, text) == IF name \in present THEN <<text>> ELSE <<>>

FileText(present, code_first, registers, statements, trailing, end_first) ==
    LET reg == IF end_first
               THEN MarkerLine(present, "END_REGISTER", "END_REGISTER_SEGMENT") \o registers
                    \o MarkerLine(present, "BEGIN_REGISTER", "BEGIN_REGISTER_SEGMENT")
               ELSE MarkerLine(present, "BEGIN_REGISTER", "BEGIN_REGISTER_SEGMENT") \o registers
                    \o MarkerLine(present, "END_REGISTER", "END_REGISTER_SEGMENT")
        cod == MarkerLine(present, "BEGIN_CODE", "BEGIN_CODE_SEGMENT") \o statements
               \o MarkerLine(present, "END_CODE", "END_CODE_SEGMENT")
    IN SegmentText(IF code_first THEN cod \o reg ELSE reg \o cod, "\n", trailing)

\* how the text given to the loader was put together
NoShape ==
    [entry |-> "none", lines |-> <<>>, sep |-> "\n", trailing |-> FALSE,
     present |-> {}, code_first |-> FALSE, registers |-> <<>>, statements |-> <<>>,
     end_first |-> FALSE]

SegmentShapes ==
    {[NoShape EXCEPT !.entry = e, !.lines = l, !.sep = t, !.trailing = b] :
        e \in {"load_variable_segment", "load_code_segment"}, l \in LineSeqs,
        t \in Terminators, b \in BOOLEAN}

FileShapes ==
    {[NoShape EXCEPT !.entry = "load_code_from_file", !.present = m, !.code_first = c,
                     !.registers = r, !.statements = x, !.trailing = b, !.end_first = f] :
        m \in SUBSET Markers, c \in BOOLEAN, r \in RegisterBodies, x \in StatementBodies,
        b \in BOOLEAN, f \in BOOLEAN}

ShapeText(sh) ==
    IF sh.entry = "load_code_from_file"
    THEN FileText(sh.present, sh.code_first, sh.registers, sh.statements, sh.trailing,
                  sh.end_first)
    ELSE SegmentText(sh.lines, sh.sep, sh.trailing)

\* the loader is not running
LoaderIdle ==
    /\ file_string = ""
    /\ shape = NoShape
    /\ lpc = "idle"
    /\ register_segment = NotLoaded
    /\ load_result = NotLoaded
    /\ probe = NoProbe

(***************************************************************************)
(* The programs and initial variable mappings the model runs.               *)
(***************************************************************************)
Programs == UNION {[1..n -> Stmts] : n \in 0..MaxCode}

NoVars == [n \in {} |-> ""]

InitVars ==
    { NoVars,
      ("a" :> "5") @@ ("b" :> "2"),
      ("a" :> "10") @@ ("b" :> "9"),
      ("a" :> "-7") @@ ("b" :> "2"),
      ("a" :> "5") @@ ("b" :> "0"),
      ("a" :> "2") @@ ("b" :> "2") @@ ("outlet" :> "1"),
      ("a" :> "abc") @@ ("b" :> "x"),
      ("a" :> "5") @@ ("b" :> "") }

(***************************************************************************)
(* The driver: run the handler the previous handler returned.               *)
(***************************************************************************)
data == [code |-> code, vars |-> vars, stack |-> stack, index |-> index]

NoLast == [state |-> "None", data |-> [code |-> <<>>, vars |-> NoVars, stack |-> <<>>, index |-> 0],
           out |-> <<>>]

Init ==
    /\ code \in Programs
    /\ vars \in InitVars
    /\ stack = <<>>
    /\ index = 0
    /\ state = "ExecuteState"
    /\ result = "Ok"
    /\ err = ""
    /\ out = <<>>
    /\ last = NoLast
    /\ LoaderIdle

\* the stack depth and the number of output lines the model follows
InRange(d, o) ==
    /\ Len(d.stack) <= MaxStack
    /\ Len(o) <= MaxOut

Apply(r) ==
    /\ InRange(r.data, out \o r.wrote)
    /\ code' = r.data.code
    /\ vars' = r.data.vars
    /\ stack' = r.data.stack
    /\ index' = r.data.index
    /\ state' = r.next
    /\ result' = r.tag
    /\ err' = r.msg
    /\ out' = out \o r.wrote
    /\ last' = [state |-> state, data |-> data, out |-> out]
    /\ UNCHANGED loader_vars

Running(s) == result = "Ok" /\ state = s

ExecuteStep == Running("ExecuteState") /\ \E r \in {ExecuteState_execute(data)} : Apply(r)

AssignStep == Running("AssignState") /\ \E r \in {AssignState_execute(data, input) : input \in Inputs} : Apply(r)

MathStep == Running("MathState") /\ \E r \in {MathState_execute(data)} : Apply(r)

GotoStep == Running("GotoState") /\ \E r \in {GotoState_execute(data)} : Apply(r)

IfStep == Running("IfState") /\ \E r \in {IfState_execute(data)} : Apply(r)

OutputStep == Running("OutputState") /\ \E r \in {OutputState_execute(data)} : Apply(r)

EndStep == Running("QuitState") /\ \E r \in {EndState_execute(data)} : Apply(r)

Next == ExecuteStep \/ AssignStep \/ MathStep \/ GotoStep \/ IfStep \/ OutputStep \/ EndStep

Spec == Init /\ [][Next]_vars_all

\* the handlers that read the statement at ip
Handlers == {"ExecuteState", "AssignState", "MathState", "GotoState", "IfState", "OutputState"}

\* the programs on which a handler is run on its own
DirectPrograms == UNION {[1..n -> Stmts] : n \in 0..MaxDirect}

\* A handler run on its own, as the tests of states.rs do: any handler is given a
\* ProgramData built by ProgramData::new with ip anywhere up to the end of the code,
\* and the handlers it returns are run after it.
InitDirect ==
    /\ code \in DirectPrograms
    /\ vars \in InitVars
    /\ stack \in {<<>>, <<"1">>}
    /\ index \in 0..Len(code)
    /\ state \in Handlers
    /\ result = "Ok"
    /\ err = ""
    /\ out = <<>>
    /\ last = NoLast
    /\ LoaderIdle

SpecDirect == InitDirect /\ [][Next]_vars_all

\* the programs that only divide and pop
StackPrograms == UNION {[1..n -> StackStmts] : n \in 0..MaxStackCode}

\* The driver on a program of divisions and pops: Execute, Assign, Math and End are the
\* handlers such a program reaches.
InitStack ==
    /\ code \in StackPrograms
    /\ vars \in InitVars
    /\ stack = <<>>
    /\ index = 0
    /\ state = "ExecuteState"
    /\ result = "Ok"
    /\ err = ""
    /\ out = <<>>
    /\ last = NoLast
    /\ LoaderIdle

NextStack == ExecuteStep \/ AssignStep \/ MathStep \/ EndStep

SpecStack == InitStack /\ [][NextStack]_vars_all

(***************************************************************************)
(* The loader run on its own: load_code_from_file on the text of a file, or *)
(* load_variable_segment and load_code_segment on a segment body.           *)
(***************************************************************************)
InitLoad ==
    /\ code = <<>>
    /\ vars = NoVars
    /\ stack = <<>>
    /\ index = 0
    /\ state = "None"
    /\ result = "Ok"
    /\ err = ""
    /\ out = <<>>
    /\ last = NoLast
    /\ shape \in SegmentShapes \cup FileShapes
    /\ file_string = ShapeText(shape)
    /\ lpc = shape.entry
    /\ register_segment = NotLoaded
    /\ load_result = NotLoaded
    /\ probe = NoProbe

\* code_loader.rs 14-31
FindMarkers ==
    /\ lpc = "load_code_from_file"
    /\ IF MissingMarker(file_string).some
       THEN /\ load_result' = FileErr(MissingMarker(file_string).v)
            /\ lpc' = "done"
       ELSE /\ lpc' = "register_segment"
            /\ UNCHANGED load_result
    /\ UNCHANGED <<file_string, shape, register_segment>>
    /\ UNCHANGED <<interp_vars, probe>>

\* code_loader.rs 33-40
LoadRegisterSegment ==
    /\ lpc = "register_segment"
    /\ LET s_pos == RegisterSegmentBounds(file_string).s_pos
           e_pos == RegisterSegmentBounds(file_string).e_pos
           loaded == load_variable_segment(Slice(file_string, s_pos, e_pos))
       IN IF ~SliceInRange(file_string, s_pos, e_pos)
          THEN /\ load_result' = FilePanic("slice index")
               /\ lpc' = "done"
               /\ UNCHANGED register_segment
          ELSE /\ register_segment' = loaded
               /\ IF loaded.tag = "Err"
                  THEN load_result' = FileErr(FmtNat(loaded.code)) /\ lpc' = "done"
                  ELSE lpc' = "code_segment" /\ UNCHANGED load_result
    /\ UNCHANGED <<file_string, shape>>
    /\ UNCHANGED <<interp_vars, probe>>

\* code_loader.rs 42-51
LoadCodeSegment ==
    /\ lpc = "code_segment"
    /\ LET s_pos == CodeSegmentBounds(file_string).s_pos
           e_pos == CodeSegmentBounds(file_string).e_pos
           loaded == load_code_segment(Slice(file_string, s_pos, e_pos))
       IN IF ~SliceInRange(file_string, s_pos, e_pos)
          THEN load_result' = FilePanic("slice index")
          ELSE IF loaded.tag = "Err"
          THEN load_result' = FileErr(FmtNat(loaded.code))
          ELSE load_result' = FileOk(register_segment.val, loaded.val)
    /\ lpc' = "done"
    /\ UNCHANGED <<file_string, shape, register_segment>>
    /\ UNCHANGED <<interp_vars, probe>>

\* code_loader.rs 134-137, called on a segment body
CallVariableSegment ==
    /\ lpc = "load_variable_segment"
    /\ load_result' = load_variable_segment(file_string)
    /\ lpc' = "done"
    /\ UNCHANGED <<file_string, shape, register_segment>>
    /\ UNCHANGED <<interp_vars, probe>>

\* code_loader.rs 139-142, called on a segment body
CallCodeSegment ==
    /\ lpc = "load_code_segment"
    /\ load_result' = load_code_segment(file_string)
    /\ lpc' = "done"
    /\ UNCHANGED <<file_string, shape, register_segment>>
    /\ UNCHANGED <<interp_vars, probe>>

NextLoad ==
    FindMarkers \/ LoadRegisterSegment \/ LoadCodeSegment \/ CallVariableSegment \/ CallCodeSegment

SpecLoad == InitLoad /\ [][NextLoad]_vars_all

(***************************************************************************)
(* The error taxonomy on its own: error(seg, code).value() for two pairs of *)
(* a segment kind and a condition, then ERROR_MESSAGES at the two codes.    *)
(***************************************************************************)
InitErrors ==
    /\ code = <<>>
    /\ vars = NoVars
    /\ stack = <<>>
    /\ index = 0
    /\ state = "None"
    /\ result = "Ok"
    /\ err = ""
    /\ out = <<>>
    /\ last = NoLast
    /\ file_string = ""
    /\ shape = NoShape
    /\ lpc = "idle"
    /\ register_segment = NotLoaded
    /\ load_result = NotLoaded
    /\ probe \in {[NoProbe EXCEPT !.pc = "error", !.seg = <<s1, s2>>, !.cond = <<c1, c2>>] :
                    s1 \in SegmentErrorTypes, s2 \in SegmentErrorTypes,
                    c1 \in ErrorTypes, c2 \in ErrorTypes}

\* errors.rs 41-76
ErrorValue ==
    /\ probe.pc = "error"
    /\ probe' = [probe EXCEPT !.pc = "message",
                               !.value = <<error(probe.seg[1], probe.cond[1]),
                                           error(probe.seg[2], probe.cond[2])>>]
    /\ UNCHANGED <<interp_vars, file_string, shape, lpc, register_segment, load_result>>

\* errors.rs 4-14: ERROR_MESSAGES[c], an index past the table panics
ErrorMessage ==
    /\ probe.pc = "message"
    /\ probe' = [probe EXCEPT !.pc = "done",
                               !.message = [i \in 1..2 |->
                                   IF probe.value[i] < Len(ERROR_MESSAGES)
                                   THEN ERROR_MESSAGES[probe.value[i] + 1]
                                   ELSE "index out of bounds"]]
    /\ UNCHANGED <<interp_vars, file_string, shape, lpc, register_segment, load_result>>

NextErrors == ErrorValue \/ ErrorMessage

SpecErrors == InitErrors /\ [][NextErrors]_vars_all

TypeOK ==
    /\ index \in Nat
    /\ result \in {"Ok", "Err", "Panic", "Exit"}
    /\ state \in {"ExecuteState", "AssignState", "MathState", "GotoState", "IfState", "OutputState",
                  "QuitState", "None"}

(***************************************************************************)
(* Properties.  last holds the handler that made the latest step and the   *)
(* ProgramData and output it was run on.                                    *)
(***************************************************************************)
Ran(h) == last.state = h

Pre == last.data

PreHasStmt == last.state # "None" /\ get_code(Pre).some

PreStmt == get_code(Pre).v

Aborting(m) == m \o "!\nAborting..."

\* the statement is exactly goto <t>
GotoForm(s) == GotoRegex[s].m /\ s = "goto " \o GotoRegex[s].caps[1]

\* the statement is exactly if $L <cmp> $R goto <n>
IfForm(s) ==
    /\ IfRegex[s].m
    /\ s = "if $" \o IfRegex[s].caps[1] \o " " \o IfRegex[s].caps[2] \o " $" \o IfRegex[s].caps[3]
           \o " goto " \o IfRegex[s].caps[4]

\* the statement is exactly output $NAME
OutputForm(s) == OutputRegex[s].m /\ s = "output $" \o OutputRegex[s].caps[1]

\* the statement is exactly let $dst = $lhs <op> $rhs
MathForm(s) ==
    /\ assign_from_operation[s].m
    /\ s = "let $" \o assign_from_operation[s].caps[1] \o " = $" \o assign_from_operation[s].caps[2]
           \o " " \o assign_from_operation[s].caps[3] \o " $" \o assign_from_operation[s].caps[4]

\* the statement is exactly let $x = pop
PopForm(s) == assign_from_stack[s].m /\ s = "let $" \o assign_from_stack[s].caps[1] \o " = pop"

\* a is before b in the byte-wise lexicographic order: at the first position where they
\* differ a has the smaller byte, or a is a proper prefix of b
LexLess(a, b) ==
    \E k \in 0..Len(b) - 1 :
        /\ k <= Len(a)
        /\ SubSeq(a, 1, k) = SubSeq(b, 1, k)
        /\ (k = Len(a) \/ Ord(Ch(a, k + 1)) < Ord(Ch(b, k + 1)))

LexHolds(cmp, l, r) ==
    \/ cmp = "<" /\ LexLess(l, r)
    \/ cmp = "<=" /\ ~LexLess(r, l)
    \/ cmp = ">" /\ LexLess(r, l)
    \/ cmp = ">=" /\ ~LexLess(l, r)
    \/ cmp = "=" /\ l = r
    \/ cmp = "!=" /\ l # r

\* the canonical decimal text of an integer: digits without leading zeros, "-" for negatives only
Canonical(t) ==
    LET digits == IF StartsAt(t, 1, "-") THEN Tail(t) ELSE t
    IN /\ AllDigits(digits)
       /\ (Len(digits) > 1 => Ch(digits, 1) # "0")
       /\ (StartsAt(t, 1, "-") => digits # "0")

\* every variable other than dst is bound as before the step
OthersUnchanged(dst) ==
    /\ DOMAIN vars = DOMAIN Pre.vars \cup {dst}
    /\ \A n \in DOMAIN Pre.vars : n # dst => vars[n] = Pre.vars[n]

\* the target of the jump that the handler run last was asked to make, -1 if none
JumpTarget ==
    IF Ran("GotoState") /\ PreHasStmt /\ GotoRegex[PreStmt].m
    THEN ParseNat(GotoRegex[PreStmt].caps[1])
    ELSE IF /\ Ran("IfState") /\ PreHasStmt /\ IfRegex[PreStmt].m
            /\ IfRegex[PreStmt].caps[1] \in DOMAIN Pre.vars
            /\ IfRegex[PreStmt].caps[3] \in DOMAIN Pre.vars
            /\ LexHolds(IfRegex[PreStmt].caps[2], Pre.vars[IfRegex[PreStmt].caps[1]],
                        Pre.vars[IfRegex[PreStmt].caps[3]])
    THEN ParseNat(IfRegex[PreStmt].caps[4])
    ELSE -1

\* C1: in every state reached by running the handlers from ip = 0 with an empty stack,
\* the instruction pointer is at least 0 and at most the code length.
C1_IndexWithinCode == index >= 0 /\ index <= Len(code)

\* C2: every jump (goto, or if whose predicate holds) to a target at or beyond the code
\* length returns a fatal error instead of a next handler, and the instruction pointer
\* is never set to that target.
C2_OutOfRangeJumpFails ==
    JumpTarget >= Len(code) =>
        /\ result = "Err"
        /\ state = "None"
        /\ index # JumpTarget

\* C3: Goto on goto <t>: for t below the code length the step succeeds with ip = t, next
\* handler Execute, vars and stack unchanged; for t at or beyond the code length it
\* returns the error "Goto statement points to region out of bounds".
C3_Goto ==
    (Ran("GotoState") /\ PreHasStmt /\ GotoForm(PreStmt)) =>
        LET t == ParseNat(GotoRegex[PreStmt].caps[1])
        IN IF t < Len(code)
           THEN /\ result = "Ok"
                /\ index = t
                /\ state = "ExecuteState"
                /\ vars = Pre.vars
                /\ stack = Pre.stack
           ELSE /\ result = "Err"
                /\ err = Aborting("Goto statement points to region out of bounds")

\* C3 happens: a goto whose target is exactly the code length was refused.
C3_Witness ==
    /\ Ran("GotoState") /\ PreHasStmt /\ GotoForm(PreStmt)
    /\ ParseNat(GotoRegex[PreStmt].caps[1]) = Len(code)
    /\ result = "Err"

\* C4: If with both variables bound compares the two value texts lexicographically
\* under the operator; when the predicate holds the new ip is n, otherwise the old
\* ip + 1; the next handler is Execute in both cases.
C4_If ==
    (/\ Ran("IfState") /\ PreHasStmt /\ IfForm(PreStmt)
     /\ IfRegex[PreStmt].caps[1] \in DOMAIN Pre.vars
     /\ IfRegex[PreStmt].caps[3] \in DOMAIN Pre.vars) =>
        LET c == IfRegex[PreStmt].caps
        IN /\ result = "Ok"
           /\ state = "ExecuteState"
           /\ index = IF LexHolds(c[2], Pre.vars[c[1]], Pre.vars[c[3]])
                      THEN ParseNat(c[4])
                      ELSE Pre.index + 1

\* C4 happens: "10" < "9" held lexicographically and the jump was taken.
C4_Witness ==
    /\ Ran("IfState") /\ PreHasStmt /\ IfForm(PreStmt)
    /\ IfRegex[PreStmt].caps[2] = "<"
    /\ IfRegex[PreStmt].caps[1] \in DOMAIN Pre.vars
    /\ IfRegex[PreStmt].caps[3] \in DOMAIN Pre.vars
    /\ Pre.vars[IfRegex[PreStmt].caps[1]] = "10"
    /\ Pre.vars[IfRegex[PreStmt].caps[3]] = "9"
    /\ index = ParseNat(IfRegex[PreStmt].caps[4])
    /\ index # Pre.index + 1

\* the handler of the first keyword, in the order let, if, goto, quit, output, that occurs in s
FirstKeywordState(s) ==
    IF Contains(s, "let") THEN "AssignState"
    ELSE IF Contains(s, "if") THEN "IfState"
    ELSE IF Contains(s, "goto") THEN "GotoState"
    ELSE IF Contains(s, "quit") THEN "QuitState"
    ELSE IF Contains(s, "output") THEN "OutputState"
    ELSE "None"

\* C5: Execute on a present statement returns the handler of the first keyword (order
\* let, if, goto, quit, output) that occurs in the text; in particular every statement
\* of the form if $L <cmp> $R goto <n> is handed to If and never to Goto.
C5_Dispatch ==
    (Ran("ExecuteState") /\ PreHasStmt) =>
        /\ state = FirstKeywordState(PreStmt)
        /\ IfForm(PreStmt) => state = "IfState"

\* C6: for every bound variable NAME, on output $NAME Execute followed by the handler
\* it returns writes the value of NAME, increases ip by one and returns Execute.
C6_Output ==
    (/\ PreHasStmt /\ OutputForm(PreStmt)
     /\ OutputRegex[PreStmt].caps[1] \in DOMAIN Pre.vars) =>
        /\ Ran("ExecuteState") => result = "Ok" /\ state = "OutputState"
        /\ ~Ran("ExecuteState") =>
              /\ result = "Ok"
              /\ out = last.out \o <<Pre.vars[OutputRegex[PreStmt].caps[1]]>>
              /\ index = Pre.index + 1
              /\ state = "ExecuteState"

\* the captures dst, lhs, op, rhs of the arithmetic statement the latest step ran on
MathCaps == assign_from_operation[PreStmt].caps

\* Math ran on let $dst = $lhs <op> $rhs with both operands bound
MathRanBound ==
    /\ Ran("MathState") /\ PreHasStmt /\ MathForm(PreStmt)
    /\ MathCaps[2] \in DOMAIN Pre.vars
    /\ MathCaps[4] \in DOMAIN Pre.vars

\* ... and both operands parse as integers
MathRanInts ==
    /\ MathRanBound
    /\ ParseIntOk(Pre.vars[MathCaps[2]])
    /\ ParseIntOk(Pre.vars[MathCaps[4]])

MathA == ParseInt(Pre.vars[MathCaps[2]])

MathB == ParseInt(Pre.vars[MathCaps[4]])

\* C7: Math on let $dst = $lhs <op> $rhs with both operands bound to integer texts
\* returns success (dst bound, ip + 1, next handler Execute); Math fails only when an
\* operand is missing or non-numeric, and always by returning an error message.
C7_MathSucceeds ==
    /\ MathRanInts =>
          /\ result = "Ok"
          /\ MathCaps[1] \in DOMAIN vars
          /\ index = Pre.index + 1
          /\ state = "ExecuteState"
    /\ (Ran("MathState") /\ PreHasStmt /\ MathForm(PreStmt) /\ result # "Ok") =>
          /\ result = "Err"
          /\ ~MathRanInts

\* C8: Math on a division of integers a by b # 0 binds dst to the quotient truncated
\* toward zero and pushes the remainder a - q*b on the stack without binding it to a
\* variable; let $x = pop on a non-empty stack binds x to the top of the stack, so the
\* remainder; a = 5, b = 2 gives dst = "2" and stack top "1".
C8_Division ==
    /\ (MathRanInts /\ MathCaps[3] = "/" /\ MathB # 0) =>
          /\ result = "Ok"
          /\ Len(stack) = Len(Pre.stack) + 1
          /\ Tail(stack) = Pre.stack
          /\ OthersUnchanged(MathCaps[1])
          /\ Canonical(vars[MathCaps[1]]) /\ Canonical(stack[1])
          /\ LET q == ParseInt(vars[MathCaps[1]])
                 r == ParseInt(stack[1])
             IN /\ q * MathB + r = MathA
                /\ Abs(r) < Abs(MathB)
                /\ (r = 0 \/ (r < 0) = (MathA < 0))
          /\ (MathA = 5 /\ MathB = 2) => (vars[MathCaps[1]] = "2" /\ stack[1] = "1")
    /\ (Ran("AssignState") /\ PreHasStmt /\ PopForm(PreStmt) /\ Len(Pre.stack) > 0) =>
          /\ result = "Ok"
          /\ vars[assign_from_stack[PreStmt].caps[1]] = Pre.stack[1]
          /\ stack = Tail(Pre.stack)

\* C8 happens: -7 / 2 bound dst to "-3" and pushed "-1".
C8_Witness ==
    /\ MathRanInts /\ MathCaps[3] = "/"
    /\ MathA = -7 /\ MathB = 2
    /\ vars[MathCaps[1]] = "-3"
    /\ stack = <<"-1">>

\* the value of a op b for op in + - *
Arith(op, a, b) ==
    IF op = "+" THEN a + b
    ELSE IF op = "-" THEN a - b
    ELSE a * b

\* C9: Math with op in + - * on integers a and b binds dst to the decimal text of a+b,
\* a-b, a*b (negative results included), leaves the stack unchanged and leaves every
\* variable other than dst unchanged.
C9_Arithmetic ==
    (MathRanInts /\ MathCaps[3] \in {"+", "-", "*"}) =>
        /\ result = "Ok"
        /\ stack = Pre.stack
        /\ OthersUnchanged(MathCaps[1])
        /\ Canonical(vars[MathCaps[1]])
        /\ ParseInt(vars[MathCaps[1]]) = Arith(MathCaps[3], MathA, MathB)

\* C9 happens: -7 - 2 bound dst to the negative result "-9".
C9_Witness ==
    /\ MathRanInts /\ MathCaps[3] = "-"
    /\ MathA = -7 /\ MathB = 2
    /\ vars[MathCaps[1]] = "-9"

\* C10: when an operand's value does not parse as an integer, Math returns the error
\* "$<name> is not a numeric value!" naming the left operand if that one is not
\* numeric and otherwise the right one, and neither binds dst, nor pushes on the stack,
\* nor advances ip.
C10_NotNumeric ==
    (MathRanBound /\ ~MathRanInts) =>
        /\ result = "Err"
        /\ err = "$" \o (IF ParseIntOk(Pre.vars[MathCaps[2]]) THEN MathCaps[4] ELSE MathCaps[2])
                     \o " is not a numeric value!\nAborting..."
        /\ vars = Pre.vars
        /\ stack = Pre.stack
        /\ index = Pre.index

\* C10 happens: both operands are not numeric and the error names the left one.
C10_Witness ==
    /\ MathRanBound
    /\ ~ParseIntOk(Pre.vars[MathCaps[2]])
    /\ ~ParseIntOk(Pre.vars[MathCaps[4]])
    /\ MathCaps[2] # MathCaps[4]
    /\ err = "$" \o MathCaps[2] \o " is not a numeric value!\nAborting..."

\* the statement is let $<name> = <rhs> for some name and some right-hand side
LetOk(s) == LetNameEnd(s, 1) # 0

\* the name on the left of a let statement
LetLhs(s) == SubSeq(s, 6, LetNameEnd(s, 1))

\* the text on the right of a let statement
LetRhs(s) == SubSeq(s, LetNameEnd(s, 1) + 4, Len(s))

\* t is an unsigned integer token or a quoted string of letters and spaces
IsLiteral(t) ==
    \/ AllDigits(t)
    \/ /\ Len(t) >= 2
       /\ Ch(t, 1) = "\"" /\ Ch(t, Len(t)) = "\""
       /\ \A k \in 2..(Len(t) - 1) : Ch(t, k) \in AlphaSpace

\* t is $<name>
IsVarRef(t) == Len(t) >= 2 /\ Ch(t, 1) = "$" /\ \A k \in 2..Len(t) : Ch(t, k) \in Word

\* Assign ran on a let statement
AssignRanLet == Ran("AssignState") /\ PreHasStmt /\ LetOk(PreStmt)

\* C11: Assign on let $name = <unsigned integer> or let $name = "<letters and spaces>"
\* binds name to exactly the literal text with the quotes removed, increases ip by one,
\* returns Execute and leaves the stack and all other variables unchanged.
C11_Literal ==
    (AssignRanLet /\ IsLiteral(LetRhs(PreStmt))) =>
        /\ result = "Ok"
        /\ OthersUnchanged(LetLhs(PreStmt))
        /\ vars[LetLhs(PreStmt)] = Remove(LetRhs(PreStmt), "\"")
        /\ stack = Pre.stack
        /\ index = Pre.index + 1
        /\ state = "ExecuteState"

\* C12: Assign on let $name = pop with an empty stack returns the error "Stack is
\* empty" and changes neither the variables nor ip; with a non-empty stack it removes
\* exactly the top element, binds name to it, increases ip by one and returns Execute.
C12_Pop ==
    (AssignRanLet /\ LetRhs(PreStmt) = "pop") =>
        IF Pre.stack = <<>>
        THEN /\ result = "Err"
             /\ err = Aborting("Stack is empty")
             /\ vars = Pre.vars
             /\ index = Pre.index
        ELSE /\ result = "Ok"
             /\ stack = Tail(Pre.stack)
             /\ OthersUnchanged(LetLhs(PreStmt))
             /\ vars[LetLhs(PreStmt)] = Pre.stack[1]
             /\ index = Pre.index + 1
             /\ state = "ExecuteState"

\* C12 happens: the remainder a division pushed was popped into a variable and the
\* stack is empty again.
C12_Witness ==
    /\ AssignRanLet /\ LetRhs(PreStmt) = "pop"
    /\ Len(Pre.stack) = 1
    /\ result = "Ok"
    /\ stack = <<>>
    /\ vars[LetLhs(PreStmt)] = Pre.stack[1]

\* C13: Assign on an arithmetic statement returns Math with ip, the variables and the
\* stack unchanged; Math then runs on the statement at that same ip and, succeeding,
\* increases ip by one, so the whole statement advances ip exactly once.
C13_HandOver ==
    /\ (Ran("AssignState") /\ PreHasStmt /\ MathForm(PreStmt)) =>
          /\ result = "Ok"
          /\ state = "MathState"
          /\ index = Pre.index
          /\ vars = Pre.vars
          /\ stack = Pre.stack
    /\ (Ran("MathState") /\ PreHasStmt /\ MathForm(PreStmt) /\ result = "Ok") =>
          index = Pre.index + 1

\* C13 happens: Assign handed the second statement of a program over to Math.
C13_Witness ==
    /\ Ran("AssignState") /\ PreHasStmt /\ MathForm(PreStmt)
    /\ state = "MathState"
    /\ Pre.index = 1
    /\ index = 1

\* C14: Assign on let $lhs = $rhs with rhs unbound returns the error "Variable $rhs
\* does not exist" and leaves the variables unchanged; with rhs bound it binds lhs to
\* the value of rhs, rhs keeps its value, ip increases by one and Execute is returned.
C14_Copy ==
    (AssignRanLet /\ IsVarRef(LetRhs(PreStmt))) =>
        LET lhs == LetLhs(PreStmt)
            rhs == Tail(LetRhs(PreStmt))
        IN IF rhs \notin DOMAIN Pre.vars
           THEN /\ result = "Err"
                /\ err = Aborting("Variable $" \o rhs \o " does not exist")
                /\ vars = Pre.vars
           ELSE /\ result = "Ok"
                /\ OthersUnchanged(lhs)
                /\ vars[lhs] = Pre.vars[rhs]
                /\ vars[rhs] = Pre.vars[rhs]
                /\ index = Pre.index + 1
                /\ state = "ExecuteState"

\* C14 happens: a variable was overwritten with the different value of another one.
C14_Witness ==
    /\ AssignRanLet /\ IsVarRef(LetRhs(PreStmt))
    /\ result = "Ok"
    /\ Tail(LetRhs(PreStmt)) # LetLhs(PreStmt)
    /\ LetLhs(PreStmt) \in DOMAIN Pre.vars
    /\ Pre.vars[LetLhs(PreStmt)] # Pre.vars[Tail(LetRhs(PreStmt))]
    /\ vars[LetLhs(PreStmt)] = Pre.vars[Tail(LetRhs(PreStmt))]

\* the recognizers of Assign that match the statement s
AssignMatches(s) ==
    {k \in {"code", "stack", "operation", "input", "memory"} :
        IF k = "code" THEN assign_from_code[s].m
        ELSE IF k = "stack" THEN assign_from_stack[s].m
        ELSE IF k = "operation" THEN assign_from_operation[s].m
        ELSE IF k = "input" THEN assign_from_input[s].m
        ELSE assign_from_memory[s].m}

\* C15 as stated: for every statement at most one of the five recognizers of Assign
\* matches, so the order in which they are tried never matters.
C15_Exclusive ==
    (Ran("AssignState") /\ PreHasStmt) => Cardinality(AssignMatches(PreStmt)) <= 1

\* C15: at most one of the five recognizers of Assign matches a statement, except that
\* an arithmetic statement matches both the arithmetic and the copy recognizer; because
\* arithmetic is tried before copy such a statement is handed to Math.
C15_Overlap ==
    (Ran("AssignState") /\ PreHasStmt) =>
        \/ Cardinality(AssignMatches(PreStmt)) <= 1
        \/ /\ AssignMatches(PreStmt) = {"operation", "memory"}
           /\ MathForm(PreStmt)
           /\ result = "Ok"
           /\ state = "MathState"

\* C15 happens: a statement matched by two recognizers went to Math.
C15_Witness ==
    /\ Ran("AssignState") /\ PreHasStmt
    /\ AssignMatches(PreStmt) = {"operation", "memory"}
    /\ state = "MathState"

\* C16: Assign on a statement that matches none of the five shapes returns the error
\* "Invalid assign instruction: <text>" and changes neither the variables, nor the
\* stack, nor ip.
C16_Invalid ==
    (Ran("AssignState") /\ PreHasStmt /\ AssignMatches(PreStmt) = {}) =>
        /\ result = "Err"
        /\ err = "Invalid assign instruction: " \o PreStmt \o "\nAborting..."
        /\ vars = Pre.vars
        /\ stack = Pre.stack
        /\ index = Pre.index

\* C16 happens: a let without the $ of its variable was refused.
C16_Witness ==
    /\ Ran("AssignState") /\ PreHasStmt
    /\ PreStmt = "let e = $a"
    /\ "a" \in DOMAIN Pre.vars
    /\ result = "Err"
    /\ err = "Invalid assign instruction: let e = $a\nAborting..."

\* C17: whenever Assign or Math returns an error, the variables, the stack and ip are
\* as they were before the handler ran.
C17_ErrorsDoNotMutate ==
    ((Ran("AssignState") \/ Ran("MathState")) /\ result = "Err") =>
        /\ vars = Pre.vars
        /\ stack = Pre.stack
        /\ index = Pre.index

\* C17 happens: Assign failed on the second statement with variables bound and a
\* remainder on the stack.
C17_Witness ==
    /\ Ran("AssignState")
    /\ result = "Err"
    /\ Pre.index = 1
    /\ Pre.vars # NoVars
    /\ Pre.stack # <<>>

\* C18: a handler that reads the statement at ip (Execute, Assign, Goto, If, Output,
\* Math) and finds none there, ip being at the end of the code or the program empty,
\* succeeds with End as the next handler and changes nothing.
C18_NoStatement ==
    (last.state \in Handlers /\ ~get_code(Pre).some) =>
        /\ result = "Ok"
        /\ state = "QuitState"
        /\ code = Pre.code
        /\ vars = Pre.vars
        /\ stack = Pre.stack
        /\ index = Pre.index
        /\ out = last.out

\* C18 happens: Math was run at the end of a program of one statement and returned End.
C18_Witness ==
    /\ Ran("MathState")
    /\ Len(Pre.code) = 1
    /\ Pre.index = 1
    /\ Pre.vars # NoVars
    /\ state = "QuitState"

\* C19: Execute on a statement that contains none of the keywords returns the error
\* "Unknown instruction: <text>" and no next handler.
C19_Unknown ==
    (Ran("ExecuteState") /\ PreHasStmt /\ FirstKeywordState(PreStmt) = "None") =>
        /\ result = "Err"
        /\ err = "Unknown instruction: " \o PreStmt \o "\nAborting..."
        /\ state = "None"

\* C19 happens: the statement nop was refused.
C19_Witness ==
    /\ Ran("ExecuteState") /\ PreHasStmt
    /\ PreStmt = "nop"
    /\ err = "Unknown instruction: nop\nAborting..."

\* C20: Execute changes neither the code, nor the variables, nor the stack, nor ip; it
\* only chooses the next handler.
C20_ExecuteChangesNothing ==
    Ran("ExecuteState") =>
        /\ code = Pre.code
        /\ vars = Pre.vars
        /\ stack = Pre.stack
        /\ index = Pre.index
        /\ out = last.out

\* C20 happens: Execute chose a handler for the second statement with variables bound.
C20_Witness ==
    /\ Ran("ExecuteState")
    /\ result = "Ok"
    /\ state = "AssignState"
    /\ index = 1
    /\ vars # NoVars

\* C21: Output on output $name with name not bound returns the error "Memory index
\* out of bounds", writes nothing and does not advance ip.
C21_OutputUnbound ==
    (/\ Ran("OutputState") /\ PreHasStmt /\ OutputForm(PreStmt)
     /\ OutputRegex[PreStmt].caps[1] \notin DOMAIN Pre.vars) =>
        /\ result = "Err"
        /\ err = Aborting("Memory index out of bounds")
        /\ out = last.out
        /\ index = Pre.index
        /\ vars = Pre.vars

\* C21 happens: after a first statement ran, output of a variable that is not bound
\* was refused.
C21_Witness ==
    /\ Ran("OutputState") /\ PreHasStmt /\ OutputForm(PreStmt)
    /\ Pre.index = 1
    /\ OutputRegex[PreStmt].caps[1] \notin DOMAIN Pre.vars
    /\ result = "Err"
    /\ out = <<>>

\* C22: on quit Execute returns End without advancing ip; End returns no next handler
\* but the value Err("Exit"), and no handler runs after End.
C22_Quit ==
    /\ []((Ran("ExecuteState") /\ PreHasStmt /\ PreStmt = "quit") =>
             (result = "Ok" /\ state = "QuitState" /\ index = Pre.index))
    /\ [](Ran("QuitState") => (result = "Exit" /\ err = "Exit" /\ state = "None"))
    /\ [][~Ran("QuitState")]_vars_all

\* C22 happens: End ran on the quit that is the second statement of a program.
C22_Witness ==
    /\ Ran("QuitState")
    /\ get_code(Pre).some
    /\ get_code(Pre).v = "quit"
    /\ Pre.index = 1
    /\ result = "Exit"

(***************************************************************************)
(* Properties of the loader.  shape tells of which lines the text given to *)
(* the loader is made.                                                      *)
(***************************************************************************)
\* load_variable_segment or load_code_segment has returned
SegmentDone == lpc = "done" /\ shape.entry \in {"load_variable_segment", "load_code_segment"}

\* load_code_from_file has returned
FileDone == lpc = "done" /\ shape.entry = "load_code_from_file"

\* the segment kind of the call
Kind == IF shape.entry = "load_variable_segment" THEN "Variable" ELSE "Code"

RECURSIVE NonBlankLines(_)
NonBlankLines(lines) ==
    IF Len(lines) = 0 THEN <<>>
    ELSE IF lines[1] = "" THEN NonBlankLines(Tail(lines))
    ELSE <<lines[1]>> \o NonBlankLines(Tail(lines))

\* the non-blank lines of the segment
Declared == NonBlankLines(shape.lines)

\* the position of the first space of a line, 0 when it has none
SpacePos(l) ==
    IF \E i \in 1..Len(l) : Ch(l, i) = " "
    THEN CHOOSE i \in 1..Len(l) : Ch(l, i) = " " /\ \A j \in 1..(i - 1) : Ch(l, j) # " "
    ELSE 0

LineIndexText(l) == SubSeq(l, 1, SpacePos(l) - 1)

\* everything after the index and the separator
LinePayload(l) == SubSeq(l, SpacePos(l) + 1, Len(l))

\* the line is <index> <payload>: digits, one space and a payload that is not blank
LineMatches(l) ==
    /\ SpacePos(l) > 1
    /\ AllDigits(LineIndexText(l))
    /\ \E k \in 1..Len(LinePayload(l)) : Ch(LinePayload(l), k) \notin WhiteSpace

\* ... and, in the variable segment, the payload is a single word
LineWellFormed(kind, l) ==
    /\ LineMatches(l)
    /\ kind = "Variable" => \A k \in 1..Len(LinePayload(l)) : Ch(LinePayload(l), k) \in Word

\* the non-blank lines before position k (counted from 1) match and carry their positions
EarlierInOrder(k) ==
    \A j \in 1..(k - 1) : LineMatches(Declared[j]) /\ ParseNat(LineIndexText(Declared[j])) = j - 1

\* C23: for a well-formed segment of N >= 1 lines that carry the indices 0..N-1 in
\* order the loader returns success with exactly N elements, the i-th being the whole
\* payload of line i.
C23_WellFormed ==
    (/\ SegmentDone
     /\ Len(Declared) >= 1
     /\ \A k \in 1..Len(Declared) :
           LineWellFormed(Kind, Declared[k]) /\ ParseNat(LineIndexText(Declared[k])) = k - 1) =>
        /\ load_result.tag = "Ok"
        /\ Len(load_result.val) = Len(Declared)
        /\ \A k \in 1..Len(Declared) : load_result.val[k] = LinePayload(Declared[k])

\* C23 happens: a code segment of three lines, the last with a payload of several
\* words, was loaded.
C23_Witness ==
    /\ SegmentDone /\ Kind = "Code"
    /\ shape.lines = <<"0 5", "1 6", "2 a b">>
    /\ load_result.tag = "Ok"
    /\ load_result.val = <<"5", "6", "a b">>

\* C24: for a segment body without a declared line, the empty text or blank lines
\* only, the loader returns success with an empty sequence.
C24_EmptySegment ==
    (SegmentDone /\ Len(Declared) = 0) =>
        /\ load_result.tag = "Ok"
        /\ load_result.val = <<>>

\* the lines of a segment of a file declare nothing, or one line with index 0
ZeroLines(b) == b \in {<<>>, <<"">>}

GoodBody(b) == b \in {<<>>, <<"">>, <<"0 5">>, <<"0 quit">>}

\* C25: a file with both marker pairs, each closed, loads successfully also when the
\* end marker of a segment directly follows its begin marker, and the empty segment
\* yields the empty sequence.
C25_EmptySegmentInFile ==
    (/\ FileDone
     /\ shape.present = Markers
     /\ GoodBody(shape.registers) /\ GoodBody(shape.statements)) =>
        /\ load_result.tag = "Ok"
        /\ ZeroLines(shape.registers) => load_result.val[1] = <<>>
        /\ ZeroLines(shape.statements) => load_result.val[2] = <<>>

\* the non-blank line at position k (counted from 1) carries an index other than k - 1
OutOfOrderAt(k) == LineMatches(Declared[k]) /\ ParseNat(LineIndexText(Declared[k])) # k - 1

\* the code of a condition for the segment kind, as the taxonomy gives it
CodeOf(kind, e) ==
    IF e = "MalformedAssignment" THEN (IF kind = "Variable" THEN 3 ELSE 4)
    ELSE IF e = "NotChronological" THEN (IF kind = "Variable" THEN 5 ELSE 6)
    ELSE (IF kind = "Variable" THEN 7 ELSE 8)

Failed(e) == load_result.tag = "Err" /\ load_result.code = CodeOf(Kind, e)

C27_MalformedLine ==
    (/\ SegmentDone
     /\ \E j \in 1..Len(Declared) : LineMatches(Declared[j])
     /\ \E k \in 1..Len(Declared) : ~LineMatches(Declared[k]) /\ EarlierInOrder(k)) =>
        Failed("MalformedAssignment")

\* C28: the loader returns MalformedSegment (7 variable, 8 code) exactly when the body
\* is not empty and none of its lines matches the line grammar.
C28_MalformedSegment ==
    SegmentDone =>
        (Failed("MalformedSegment") <=>
            (file_string # "" /\ \A k \in 1..Len(shape.lines) : ~LineMatches(shape.lines[k])))

\* C29: blank lines are skipped: the result is the result for the segment made of the
\* non-blank lines alone.
C29_BlankLines ==
    SegmentDone =>
        load_result = load_segment(Kind, SegmentText(Declared, shape.sep, FALSE),
                                   IF Kind = "Variable" THEN VarPattern ELSE CodePattern)

\* the file has the marker: a begin marker with the line terminator that ends its
\* line, an end marker with the line terminator before it
HasMarker(m) == Contains(file_string, m)

\* the message for the first marker, in the order register begin, register end, code
\* begin, code end, that the file does not have
FirstMissing ==
    IF ~HasMarker(BEGIN_REGISTER_SEGMENT) THEN "No register segment found!"
    ELSE IF ~HasMarker(END_REGISTER_SEGMENT) THEN "Register segment not fully defined!"
    ELSE IF ~HasMarker(BEGIN_CODE_SEGMENT) THEN "No code segment found!"
    ELSE "Code segment not fully defined!"

SomeMarkerMissing ==
    \E m \in {BEGIN_REGISTER_SEGMENT, END_REGISTER_SEGMENT, BEGIN_CODE_SEGMENT, END_CODE_SEGMENT} :
        ~HasMarker(m)

\* C30: when a marker is missing load returns the message of the first missing marker in
\* the order register begin, register end, code begin, code end, not a code, and parses
\* no segment.
C30_MissingMarker ==
    (FileDone /\ SomeMarkerMissing) =>
        /\ load_result.tag = "Err"
        /\ load_result.msg = FirstMissing \o " Aborting..."
        /\ register_segment = NotLoaded

\* C30 happens: the end marker of the registers and both code markers are missing and
\* the message names the register segment.
C30_Witness ==
    /\ FileDone
    /\ shape.present = {"BEGIN_REGISTER"}
    /\ shape.registers = <<"0 5">>
    /\ load_result.msg = "Register segment not fully defined! Aborting..."
    /\ register_segment = NotLoaded

\* the text of the file with its two regions in the other order
SwappedText ==
    FileText(shape.present, ~shape.code_first, shape.registers, shape.statements,
             shape.trailing, shape.end_first)

\* C31: when load succeeds on a file, it succeeds on the file with the register region and
\* the code region swapped, with the same variable values and the same statement texts.
C31_OrderOfRegions ==
    (FileDone /\ load_result.tag = "Ok") =>
        /\ load_code_from_file(SwappedText).tag = "Ok"
        /\ load_code_from_file(SwappedText).val = load_result.val

\* C31 happens: a file with the code region first is loaded, and one value and one
\* statement come out of it
C31_Witness ==
    /\ FileDone
    /\ shape.code_first
    /\ SwappedText # file_string
    /\ load_result.tag = "Ok"
    /\ load_result.val = <<<<"5">>, <<"quit">>>>

\* both codes of the pair are computed
Encoded == probe.pc \in {"message", "done"}

\* C32 as stated: the same condition has different codes for the two segment kinds,
\* AllOk included, and within a kind different conditions have different codes.
C32_AllDistinct ==
    Encoded =>
        /\ (probe.seg[1] # probe.seg[2] /\ probe.cond[1] = probe.cond[2]) =>
               probe.value[1] # probe.value[2]
        /\ (probe.seg[1] = probe.seg[2] /\ probe.cond[1] # probe.cond[2]) =>
               probe.value[1] # probe.value[2]

\* C32 amended: every condition other than AllOk has different codes for the two segment
\* kinds, AllOk has code 0 for both, and within a kind different conditions have different
\* codes.
C32_DistinctButAllOk ==
    Encoded =>
        /\ (probe.seg[1] # probe.seg[2] /\ probe.cond[1] = probe.cond[2]
                /\ probe.cond[1] # "AllOk") => probe.value[1] # probe.value[2]
        /\ (probe.seg[1] = probe.seg[2] /\ probe.cond[1] # probe.cond[2]) =>
               probe.value[1] # probe.value[2]
        /\ \A i \in 1..2 : probe.cond[i] = "AllOk" => probe.value[i] = 0

\* C32 happens: MalformedSegment is 7 for the variable segment and 8 for the code segment
C32_Witness ==
    /\ Encoded
    /\ probe.seg = <<"Variable", "Code">>
    /\ probe.cond = <<"MalformedSegment", "MalformedSegment">>
    /\ probe.value = <<7, 8>>

\* the message speaks of the condition
NamesCondition(m, cond) ==
    IF cond = "AllOk" THEN m = "Ok"
    ELSE IF cond = "NoSegment" THEN StartsAt(m, 1, "No ") /\ Contains(m, " segment found!")
    ELSE IF cond = "MalformedAssignment"
    THEN StartsAt(m, 1, "Malformed ") /\ Contains(m, " assignment found!")
    ELSE IF cond = "NotChronological" THEN Contains(m, " not in chronological order!")
    ELSE StartsAt(m, 1, "Malformed ") /\ Contains(m, " segment found!")

\* the message speaks of the segment kind
NamesKind(m, seg) ==
    LET register == Contains(m, "register ") \/ Contains(m, "Register ")
        lines == Contains(m, "code ") \/ Contains(m, "Code ")
    IN IF seg = "Variable" THEN register /\ ~lines ELSE lines /\ ~register

\* C36: every code is below 9, the message at the code names the segment kind and the
\* condition the code was made from, odd codes belong to the variable segment, even codes
\* other than 0 to the code segment, and 0 is "Ok".
C36_MessageOfCode ==
    probe.pc = "done" =>
        \A i \in 1..2 :
            /\ probe.value[i] < 9
            /\ NamesCondition(probe.message[i], probe.cond[i])
            /\ probe.cond[i] # "AllOk" => NamesKind(probe.message[i], probe.seg[i])
            /\ probe.cond[i] # "AllOk" =>
                   (probe.value[i] % 2 = 1 <=> probe.seg[i] = "Variable")
            /\ probe.value[i] = 0 <=> probe.cond[i] = "AllOk"

\* C36 happens: NotChronological of the code segment is 6, and the message at 6 is the
\* one about code lines
C36_Witness ==
    /\ probe.pc = "done"
    /\ probe.seg[1] = "Code"
    /\ probe.cond[1] = "NotChronological"
    /\ probe.value[1] = 6
    /\ probe.message[1] = "Code lines are not in chronological order!"

\* the latest step failed with the message that the variable does not exist and left ip
\* where it was
MissingVariable(name) ==
    /\ result = "Err"
    /\ err = Aborting("Variable $" \o name \o " does not exist")
    /\ state = "None"
    /\ index = Pre.index

\* the operands of the statement: left is not bound, or left is bound and right is not
FirstUnbound(lhs_name, rhs_name) ==
    IF lhs_name \notin DOMAIN Pre.vars THEN Some(lhs_name)
    ELSE IF rhs_name \notin DOMAIN Pre.vars THEN Some(rhs_name)
    ELSE None

\* C34: If on if $L <cmp> $R goto <n> and Math on let $dst = $L <op> $R with L or R not
\* bound fail with "Variable $<name> does not exist!" and the abort line, naming L when L
\* is not bound and R otherwise, and leave ip unchanged.
C34_UnboundOperand ==
    /\ (Ran("IfState") /\ PreHasStmt /\ IfForm(PreStmt)
            /\ FirstUnbound(IfRegex[PreStmt].caps[1], IfRegex[PreStmt].caps[3]).some) =>
           MissingVariable(FirstUnbound(IfRegex[PreStmt].caps[1], IfRegex[PreStmt].caps[3]).v)
    /\ (Ran("MathState") /\ PreHasStmt /\ MathForm(PreStmt)
            /\ FirstUnbound(MathCaps[2], MathCaps[4]).some) =>
           MissingVariable(FirstUnbound(MathCaps[2], MathCaps[4]).v)

\* C34 happens: If ran on if $a = $c goto 1 with a bound and c not, and the error names c
C34_Witness ==
    /\ Ran("IfState")
    /\ PreStmt = "if $a = $c goto 1"
    /\ "a" \in DOMAIN Pre.vars
    /\ MissingVariable("c")

\* the statement is a division let $dst = $lhs / $rhs
DivisionForm(s) == MathForm(s) /\ assign_from_operation[s].caps[3] = "/"

\* the variable a division or a pop assigns
Assigned(s) ==
    IF MathForm(s) THEN assign_from_operation[s].caps[1] ELSE assign_from_stack[s].caps[1]

\* the variables a division reads
Operands(s) ==
    IF MathForm(s) THEN {assign_from_operation[s].caps[2], assign_from_operation[s].caps[4]}
    ELSE {}

\* the program is divisions and pops only, and assigns no variable a division reads
DivisionsAndPops(prog) ==
    /\ \A i \in 1..Len(prog) : DivisionForm(prog[i]) \/ PopForm(prog[i])
    /\ \A i, j \in 1..Len(prog) : Assigned(prog[i]) \notin Operands(prog[j])

\* the remainder of the division truncated toward zero
TruncRem(x, y) == IF x < 0 THEN 0 - ((0 - x) % (IF y < 0 THEN 0 - y ELSE y))
                  ELSE x % (IF y < 0 THEN 0 - y ELSE y)

\* the remainder of the division statement s under the variable values v
RemainderOf(s, v) ==
    TruncRem(ParseInt(v[assign_from_operation[s].caps[2]]),
             ParseInt(v[assign_from_operation[s].caps[4]]))

\* The remainders, oldest first, of the divisions among the first n statements that no
\* later pop among them has taken: a division adds its remainder at the end, a pop takes
\* the one at the end.
RECURSIVE Unpopped(_, _, _)
Unpopped(prog, n, v) ==
    IF n = 0 THEN <<>>
    ELSE LET before == Unpopped(prog, n - 1, v)
         IN IF DivisionForm(prog[n]) THEN Append(before, FmtInt(RemainderOf(prog[n], v)))
            ELSE SubSeq(before, 1, Len(before) - 1)

Reverse(s) == [i \in 1..Len(s) |-> s[Len(s) + 1 - i]]

\* the driver is about to read the statement at ip, after the first ip statements of a
\* program of divisions and pops have run
AfterPrefix ==
    /\ state = "ExecuteState" /\ result = "Ok"
    /\ DivisionsAndPops(code)
    /\ index <= Len(code)

\* C35: in a program of divisions and pops a pop binds its variable to the remainder of
\* the latest division whose remainder no pop has taken yet, and the stack holds the
\* remainders not yet taken, latest first.
C35_LastInFirstOut ==
    AfterPrefix =>
        /\ stack = Reverse(Unpopped(code, index, vars))
        /\ (index > 0 /\ PopForm(code[index])) =>
               LET pending == Unpopped(code, index - 1, vars)
               IN /\ Len(pending) > 0
                  /\ vars[Assigned(code[index])] = pending[Len(pending)]

\* C35 happens: 5 / 2 leaves 1, 2 / 5 leaves 2, the first pop binds d to 2 and the second
\* binds e to 1
C35_Witness ==
    /\ AfterPrefix
    /\ code = <<"let $c = $a / $b", "let $c = $b / $a", "let $d = pop", "let $e = pop">>
    /\ index = 4
    /\ "d" \in DOMAIN vars /\ vars["d"] = "2"
    /\ "e" \in DOMAIN vars /\ vars["e"] = "1"
    /\ stack = <<>>

\* C37: on a file that has all four markers load returns a success or an error value,
\* wherever the begin and end markers of a region stand; it does not stop abnormally.
C37_NoAbnormalStop ==
    (FileDone /\ ~SomeMarkerMissing) => load_result.tag \in {"Ok", "Err"}

\* the handlers that may follow a handler
Successors(h) ==
    IF h = "ExecuteState" THEN {"AssignState", "IfState", "GotoState", "OutputState", "QuitState"}
    ELSE IF h = "AssignState" THEN {"ExecuteState", "MathState", "QuitState"}
    ELSE IF h \in {"MathState", "IfState", "GotoState", "OutputState"}
    THEN {"ExecuteState", "QuitState"}
    ELSE {}

\* C38: the handler a handler returns is one of its successors in the graph Execute ->
\* Assign, If, Goto, Output, End; Assign -> Execute, Math, End; Math, If, Goto, Output ->
\* Execute, End; Math is returned by Assign only, with ip unchanged; End returns no
\* handler and the run stops.
C38_TransitionGraph ==
    /\ (last.state # "None" /\ result = "Ok") => state \in Successors(last.state)
    /\ (result = "Ok" /\ state = "MathState") => (Ran("AssignState") /\ index = Pre.index)
    /\ Ran("QuitState") => (result # "Ok" /\ state = "None")

\* C38 happens: Math, entered from Assign on the first statement, hands over to Execute
\* on the second
C38_Witness ==
    /\ Ran("MathState")
    /\ Pre.index = 0
    /\ result = "Ok"
    /\ state = "ExecuteState"
    /\ index = 1

\* every goto and if of the program jumps to a line after its own
ForwardOnly(prog) ==
    \A i \in 1..Len(prog) :
        /\ GotoRegex[prog[i]].m => ParseNat(GotoRegex[prog[i]].caps[1]) > i - 1
        /\ IfRegex[prog[i]].m => ParseNat(IfRegex[prog[i]].caps[4]) > i - 1

\* the statements from ip to the end of the code
Remaining == IF index < Len(code) THEN Len(code) - index ELSE 0

\* The handler steps the run has left at most: none once it has ended; one in End; in
\* Execute three for each remaining statement and two for reaching and running End; in
\* Math the step of Math and what Execute needs on the next statement; in Assign, If,
\* Goto and Output one more than that.
StepsLeft ==
    IF result # "Ok" THEN 0
    ELSE IF state = "QuitState" THEN 1
    ELSE IF state = "ExecuteState" THEN 3 * Remaining + 2
    ELSE IF state = "MathState" THEN 3 * Remaining
    ELSE 3 * Remaining + 1

\* C39: on a program whose jumps all go forward every handler step lowers the number of
\* steps left, which is 3 * code length + 2 at the start, at least 1 while the run goes on
\* and 0 once it has reached End or a fatal error: the run ends within 3 * code length + 2
\* steps.
C39_Terminates ==
    /\ [][ForwardOnly(code) => StepsLeft' < StepsLeft]_vars_all
    /\ [](ForwardOnly(code) =>
            /\ StepsLeft <= 3 * Len(code) + 2
            /\ last.state = "None" => StepsLeft = 3 * Len(code) + 2
            /\ result = "Ok" <=> StepsLeft >= 1)

\* C39 happens: a program that jumps forward over nothing and then adds has run to End
C39_Witness ==
    /\ ForwardOnly(code)
    /\ Len(code) = 2
    /\ code[1] = "goto 1"
    /\ MathForm(code[2])
    /\ Ran("QuitState")
    /\ result = "Exit"
    /\ index = 2

\* C40: no step changes the code, and a successful step of If, Goto or Output leaves the
\* variable mapping and the stack as they were before it.
C40_Frame ==
    /\ [][code' = code]_vars_all
    /\ []((last.state \in {"IfState", "GotoState", "OutputState"} /\ result = "Ok") =>
             (vars = Pre.vars /\ stack = Pre.stack /\ code = Pre.code))

\* C40 happens: Goto jumped back from the second statement with variables bound and a
\* remainder on the stack
C40_Witness ==
    /\ Ran("GotoState")
    /\ result = "Ok"
    /\ Pre.index = 1
    /\ index = 0
    /\ Pre.vars # NoVars
    /\ Pre.stack # <<>>
    /\ stack = Pre.stack

====================================================================================
